---- MODULE Spec2Model ----
(***************************************************************************)
(* PR reviewer assignment service (main.go).                               *)
(*                                                                         *)
(* The state is the content of the four PostgreSQL tables created by       *)
(* initDB plus, for every HTTP request in flight, the position of its      *)
(* handler and the handler's local variables.  Every SQL statement a       *)
(* handler issues through the global db handle is one atomic step          *)
(* (autocommit); the statements of teamDeactivateHandler run inside one    *)
(* READ COMMITTED transaction whose writes stay private until COMMIT; a    *)
(* statement of another request that needs a row the transaction changed  *)
(* waits for it.  One deactivation transaction is in flight at a time.     *)
(* Storage calls succeed in every specification but SpecFault, which adds *)
(* the failures of the statements its fault actions name.  SpecStart runs  *)
(* main's connection loop before the first request; SpecAssign runs        *)
(* assignReviewers statement by statement on its own.                      *)
(***************************************************************************)
EXTENDS Naturals, Integers, Sequences, FiniteSets, TLC

(* ------------------------------ bounds -------------------------------- *)
UserSeq == <<"u1", "u2", "u3", "u4">>
Users == {UserSeq[i] : i \in 1..Len(UserSeq)}
Teams == {"t1", "t2"}
PRs   == {"p1"}
Procs == {"r1", "r2"}

\* the logical clock behind CURRENT_TIMESTAMP stops at MaxTime
MaxTime == 3

NoUser == "-"
NoTeam == "-"
NULL   == 0

VARIABLES
    teams,       \* table teams: set of team_name
    users,       \* table users: user_id -> [team, active]; team = NoTeam: no row
    prs,         \* table pull_requests: id -> [author, status, createdAt, mergedAt]
    reviewers,   \* table pr_reviewers: id -> set of user_id (PRIMARY KEY (pr, user))
    now,         \* value of the last CURRENT_TIMESTAMP handed out
    req,         \* per request slot: the running handler, its position and locals
    resp         \* the HTTP response written by the last step (NoResp if none)

db   == <<teams, users, prs, reviewers>>
vars == <<teams, users, prs, reviewers, now, req, resp>>

(* ------------------------------ schema -------------------------------- *)
NoUserRow == [team |-> NoTeam, active |-> FALSE]
NoPRRow   == [author |-> NoUser, status |-> "NONE", createdAt |-> NULL, mergedAt |-> NULL]

Idle   == [op |-> "none", pc |-> "idle"]
NoResp == [op |-> "none"]

userExists(u) == users[u].team # NoTeam
prExists(p)   == prs[p].status # "NONE"

\* all orders in which the rows of a result set can come back
RECURSIVE Orders(_)
Orders(S) ==
    IF S = {} THEN {<<>>}
    ELSE UNION {{<<x>> \o t : t \in Orders(S \ {x})} : x \in S}

Range(s) == {s[i] : i \in 1..Len(s)}

Min(a, b) == IF a <= b THEN a ELSE b

(* ------------------------------ helpers ------------------------------- *)
\* the query without "AND user_id != $2"
getActiveTeamMembers_WithAuthor(teamName, excludeUserID) ==
    {u \in Users : users[u].team = teamName /\ users[u].active}

\* the query without "team_name = $1"
getActiveTeamMembers_AnyTeam(teamName, excludeUserID) ==
    {u \in Users : /\ userExists(u)
                   /\ users[u].active
                   /\ u # excludeUserID}

\* SELECT user_id FROM users WHERE team_name = $1 AND is_active = true AND user_id != $2
getActiveTeamMembers(teamName, excludeUserID) ==
    {u \in Users : /\ users[u].team = teamName
                   /\ users[u].active
                   /\ u # excludeUserID}

\* the query without "AND is_active = true"
getActiveTeamMembersExcluding_AnyActivity(teamName, excludeUserIDs) ==
    {u \in Users : users[u].team = teamName /\ u \notin excludeUserIDs}

\* the query without the NOT IN list
getActiveTeamMembersExcluding_NoExclusion(teamName, excludeUserIDs) ==
    {u \in Users : users[u].team = teamName /\ users[u].active}

\* ... AND user_id NOT IN ($2, ...); with no exclusions the plain query
getActiveTeamMembersExcluding(teamName, excludeUserIDs) ==
    IF excludeUserIDs = {}
    THEN {u \in Users : users[u].team = teamName /\ users[u].active}
    ELSE {u \in Users : /\ users[u].team = teamName
                        /\ users[u].active
                        /\ u \notin excludeUserIDs}

\* SELECT user_id FROM pr_reviewers WHERE pull_request_id = $1
getCurrentReviewers(prID) == reviewers[prID]

\* one Fisher-Yates step: swap positions i and j (1-based)
Swap(s, i, j) == [k \in 1..Len(s) |-> IF k = i THEN s[j] ELSE IF k = j THEN s[i] ELSE s[k]]

\* the shuffle loop for i = hi down to 2; rand.Int yields any j in 1..i (a
\* failed rand.Int skips the swap, which is the outcome j = i)
RECURSIVE Shuffles(_, _)
Shuffles(s, hi) ==
    IF hi < 2 THEN {s}
    ELSE UNION {Shuffles(Swap(s, hi, j), hi - 1) : j \in 1..hi}

\* the shuffle without the final shuffled[:maxCount]
assignReviewers_NoCut(candidates, maxCount) ==
    IF Len(candidates) <= maxCount
    THEN {candidates}
    ELSE Shuffles(candidates, Len(candidates))

\* the function without the shuffle: the first maxCount rows of the result
assignReviewers_FirstRows(candidates, maxCount) ==
    IF Len(candidates) <= maxCount
    THEN {candidates}
    ELSE {SubSeq(candidates, 1, maxCount)}

\* every value assignReviewers can return for a candidate list
assignReviewers(candidates, maxCount) ==
    IF Len(candidates) <= maxCount
    THEN {candidates}
    ELSE {SubSeq(sh, 1, maxCount) : sh \in Shuffles(candidates, Len(candidates))}

\* every value selectRandomCandidate can return
selectRandomCandidate(candidates) == candidates

\* the "pr" object of a response, once both reads of getPullRequest are done
PRView(row, revs) ==
    [author |-> row.author, status |-> row.status,
     createdAt |-> row.createdAt, mergedAt |-> row.mergedAt, reviewers |-> revs]

(* ------------------------------- Init --------------------------------- *)
Init ==
    /\ teams = {}
    /\ users = [u \in Users |-> NoUserRow]
    /\ prs = [p \in PRs |-> NoPRRow]
    /\ reviewers = [p \in PRs |-> {}]
    /\ now = 0
    /\ req = [r \in Procs |-> Idle]
    /\ resp = NoResp

(* ----------------------- POST /users/setIsActive ---------------------- *)
\* the handler without the "rowsAffected == 0" return
usersSetIsActiveHandler_NoRowCheck(r, userID, isActive) ==
    /\ req[r].pc = "idle"
    /\ users' = IF userExists(userID)
                THEN [users EXCEPT ![userID].active = isActive] ELSE users
    /\ resp' = [proc |-> r, op |-> "setIsActive", code |-> "OK", user |-> userID]
    /\ UNCHANGED <<teams, prs, reviewers, now, req>>

\* the UPDATE followed by a DELETE of the user's reviewer links when the
\* user is deactivated
usersSetIsActiveHandler_DropLinks(r, userID, isActive) ==
    /\ req[r].pc = "idle"
    /\ IF userExists(userID)
       THEN /\ users' = [users EXCEPT ![userID].active = isActive]
            /\ reviewers' = IF isActive THEN reviewers
                             ELSE [p \in PRs |-> reviewers[p] \ {userID}]
            /\ resp' = [proc |-> r, op |-> "setIsActive", code |-> "OK", user |-> userID]
       ELSE /\ resp' = [proc |-> r, op |-> "setIsActive", code |-> "NOT_FOUND",
                        user |-> userID]
            /\ UNCHANGED <<users, reviewers>>
    /\ UNCHANGED <<teams, prs, now, req>>

\* UPDATE users SET is_active = $1 WHERE user_id = $2; no row affected is
\* NOT_FOUND.  The SELECT that follows only fills the body of the response,
\* which is not carried here
usersSetIsActiveHandler(r, userID, isActive) ==
    /\ req[r].pc = "idle"
    /\ IF userExists(userID)
       THEN /\ users' = [users EXCEPT ![userID].active = isActive]
            /\ resp' = [proc |-> r, op |-> "setIsActive", code |-> "OK", user |-> userID]
       ELSE /\ resp' = [proc |-> r, op |-> "setIsActive", code |-> "NOT_FOUND",
                        user |-> userID]
            /\ UNCHANGED users
    /\ UNCHANGED <<teams, prs, reviewers, now, req>>

(* --------------------------- POST /team/add --------------------------- *)
\* the request bodies: a team name and a member list (user_id, is_active)
RECURSIVE MemberLists(_)
MemberLists(i) ==
    IF i > Len(UserSeq) THEN {<<>>}
    ELSE LET rest == MemberLists(i + 1)
         IN rest \cup {<<[user |-> UserSeq[i], active |-> a]>> \o t :
                          a \in BOOLEAN, t \in rest}

\* the handler going on to the member upserts when the team exists
teamAddHandler_UpsertAnyway(r, teamName, members) ==
    /\ req[r].pc = "idle"
    /\ IF teamName \in teams /\ members = <<>>
       THEN /\ resp' = [proc |-> r, op |-> "teamAdd", code |-> "TEAM_EXISTS",
                        team |-> teamName]
            /\ UNCHANGED req
       ELSE /\ req' = [req EXCEPT ![r] =
                         [op |-> "teamAdd",
                          pc |-> IF teamName \in teams THEN "upsert" ELSE "insert",
                          team |-> teamName, members |-> members]]
            /\ resp' = NoResp
    /\ UNCHANGED <<teams, users, prs, reviewers, now>>

\* SELECT EXISTS(SELECT 1 FROM teams WHERE team_name = $1)
teamAddHandler(r, teamName, members) ==
    /\ req[r].pc = "idle"
    /\ IF teamName \in teams
       THEN /\ resp' = [proc |-> r, op |-> "teamAdd", code |-> "TEAM_EXISTS",
                        team |-> teamName]
            /\ UNCHANGED req
       ELSE /\ req' = [req EXCEPT ![r] =
                         [op |-> "teamAdd", pc |-> "insert", team |-> teamName,
                          members |-> members]]
            /\ resp' = NoResp
    /\ UNCHANGED <<teams, users, prs, reviewers, now>>

teamAddCreated(r) == [proc |-> r, op |-> "teamAdd", code |-> "OK", team |-> req[r].team]

\* INSERT INTO teams (team_name) VALUES ($1); the primary key rejects a
\* name a concurrent request inserted after the EXISTS check
teamAddInsert(r) ==
    /\ req[r].op = "teamAdd"
    /\ req[r].pc = "insert"
    /\ IF req[r].team \in teams
       THEN /\ resp' = [proc |-> r, op |-> "teamAdd", code |-> "INTERNAL",
                        team |-> req[r].team]
            /\ req' = [req EXCEPT ![r] = Idle]
            /\ UNCHANGED teams
       ELSE /\ teams' = teams \cup {req[r].team}
            /\ IF req[r].members = <<>>
               THEN /\ resp' = teamAddCreated(r)
                    /\ req' = [req EXCEPT ![r] = Idle]
               ELSE /\ resp' = NoResp
                    /\ req' = [req EXCEPT ![r].pc = "upsert"]
    /\ UNCHANGED <<users, prs, reviewers, now>>

\* the INSERT with ON CONFLICT (user_id) DO NOTHING
teamAddUpsert_DoNothing(r) ==
    /\ req[r].op = "teamAdd"
    /\ req[r].pc = "upsert"
    /\ LET member == Head(req[r].members)
           rest   == Tail(req[r].members)
       IN /\ users' = IF userExists(member.user) THEN users
                      ELSE [users EXCEPT ![member.user] =
                              [team |-> req[r].team, active |-> member.active]]
          /\ IF rest = <<>>
             THEN /\ resp' = teamAddCreated(r)
                  /\ req' = [req EXCEPT ![r] = Idle]
             ELSE /\ resp' = NoResp
                  /\ req' = [req EXCEPT ![r].members = rest]
    /\ UNCHANGED <<teams, prs, reviewers, now>>

\* INSERT INTO users ... ON CONFLICT (user_id) DO UPDATE SET username, team_name, is_active
teamAddUpsert(r) ==
    /\ req[r].op = "teamAdd"
    /\ req[r].pc = "upsert"
    /\ LET member == Head(req[r].members)
           rest   == Tail(req[r].members)
       IN /\ users' = [users EXCEPT ![member.user] =
                         [team |-> req[r].team, active |-> member.active]]
          /\ IF rest = <<>>
             THEN /\ resp' = teamAddCreated(r)
                  /\ req' = [req EXCEPT ![r] = Idle]
             ELSE /\ resp' = NoResp
                  /\ req' = [req EXCEPT ![r].members = rest]
    /\ UNCHANGED <<teams, prs, reviewers, now>>

(* ---------------------------- GET /team/get --------------------------- *)
\* SELECT EXISTS(SELECT 1 FROM teams WHERE team_name = $1)
teamGetHandler(r, teamName) ==
    /\ req[r].pc = "idle"
    /\ IF teamName \notin teams
       THEN /\ resp' = [proc |-> r, op |-> "teamGet", code |-> "NOT_FOUND",
                        team |-> teamName]
            /\ UNCHANGED req
       ELSE /\ resp' = NoResp
            /\ req' = [req EXCEPT ![r] = [op |-> "teamGet", pc |-> "members",
                                          team |-> teamName]]
    /\ UNCHANGED <<teams, users, prs, reviewers, now>>

\* SELECT user_id, username, is_active FROM users WHERE team_name = $1
teamGetMembers(r) ==
    /\ req[r].op = "teamGet"
    /\ req[r].pc = "members"
    /\ resp' = [proc |-> r, op |-> "teamGet", code |-> "OK", team |-> req[r].team,
                members |-> {[user |-> u, active |-> users[u].active] :
                                u \in {v \in Users : users[v].team = req[r].team}}]
    /\ req' = [req EXCEPT ![r] = Idle]
    /\ UNCHANGED <<teams, users, prs, reviewers, now>>

(* ----------------------- POST /pullRequest/merge ---------------------- *)
\* a merge that stamps merged_at again although the PR is already MERGED
pullRequestMergeHandler_Restamp(r, prID) ==
    /\ req[r].pc = "idle"
    /\ IF ~prExists(prID)
       THEN /\ resp' = [proc |-> r, op |-> "merge", code |-> "NOT_FOUND", id |-> prID]
            /\ UNCHANGED req
       ELSE /\ resp' = NoResp
            /\ req' = [req EXCEPT ![r] =
                         [op |-> "merge", pc |-> "update", pr |-> prID,
                          status |-> prs[prID].status, row |-> NoPRRow]]
    /\ UNCHANGED <<teams, users, prs, reviewers, now>>

\* SELECT status, merged_at FROM pull_requests WHERE pull_request_id = $1;
\* a PR already MERGED goes straight to the response
pullRequestMergeHandler(r, prID) ==
    /\ req[r].pc = "idle"
    /\ IF ~prExists(prID)
       THEN /\ resp' = [proc |-> r, op |-> "merge", code |-> "NOT_FOUND", id |-> prID]
            /\ UNCHANGED req
       ELSE /\ resp' = NoResp
            /\ req' = [req EXCEPT ![r] =
                         [op |-> "merge",
                          pc |-> IF prs[prID].status = "MERGED" THEN "getPR" ELSE "update",
                          pr |-> prID, status |-> prs[prID].status, row |-> NoPRRow]]
    /\ UNCHANGED <<teams, users, prs, reviewers, now>>

\* the UPDATE without "merged_at = CURRENT_TIMESTAMP"
pullRequestMergeUpdate_NoStamp(r) ==
    /\ req[r].op = "merge"
    /\ req[r].pc = "update"
    /\ now < MaxTime
    /\ now' = now + 1
    /\ prs' = [prs EXCEPT ![req[r].pr].status = "MERGED"]
    /\ req' = [req EXCEPT ![r].pc = "getPR"]
    /\ resp' = NoResp
    /\ UNCHANGED <<teams, users, reviewers>>

\* UPDATE pull_requests SET status = 'MERGED', merged_at = CURRENT_TIMESTAMP
\* WHERE pull_request_id = $1
pullRequestMergeUpdate(r) ==
    /\ req[r].op = "merge"
    /\ req[r].pc = "update"
    /\ now < MaxTime
    /\ now' = now + 1
    /\ prs' = [prs EXCEPT ![req[r].pr].status = "MERGED",
                          ![req[r].pr].mergedAt = now + 1]
    /\ req' = [req EXCEPT ![r].pc = "getPR"]
    /\ resp' = NoResp
    /\ UNCHANGED <<teams, users, reviewers>>

(* --------------------------- getPullRequest --------------------------- *)
\* SELECT ... FROM pull_requests WHERE pull_request_id = $1, the first read
\* of getPullRequest, shared by the merge and reassign responses
getPullRequest(r) ==
    /\ req[r].op \in {"merge", "reassign"}
    /\ req[r].pc = "getPR"
    /\ req' = [req EXCEPT ![r].pc = "getReviewers", ![r].row = prs[req[r].pr]]
    /\ resp' = NoResp
    /\ UNCHANGED <<teams, users, prs, reviewers, now>>

\* pr.AssignedReviewers = getCurrentReviewers(prID), the second read of
\* getPullRequest, and the response built from both reads
getPullRequestReviewers(r) ==
    /\ req[r].op \in {"merge", "reassign"}
    /\ req[r].pc = "getReviewers"
    /\ resp' = IF req[r].op = "merge"
               THEN [proc |-> r, op |-> "merge", code |-> "OK", id |-> req[r].pr,
                     pr |-> PRView(req[r].row, getCurrentReviewers(req[r].pr))]
               ELSE [proc |-> r, op |-> "reassign", code |-> "OK", id |-> req[r].pr,
                     old |-> req[r].old,
                     pr |-> PRView(req[r].row, getCurrentReviewers(req[r].pr)),
                     replaced_by |-> req[r].new]
    /\ req' = [req EXCEPT ![r] = Idle]
    /\ UNCHANGED <<teams, users, prs, reviewers, now>>

(* ---------------------- POST /pullRequest/create ---------------------- *)
\* rows of pr_reviewers an open transaction has locked or holds uncommitted
\* versions of; a statement that needs one of them waits for the transaction
txDel == UNION {IF req[r].op = "deactivate" THEN req[r].txDel ELSE {} : r \in Procs}
txAdd == UNION {IF req[r].op = "deactivate" THEN req[r].txAdd ELSE {} : r \in Procs}

\* the handler with the author lookup ahead of the EXISTS check
pullRequestCreateHandler_AuthorFirst(r, prID, authorID) ==
    /\ req[r].pc = "idle"
    /\ IF ~userExists(authorID)
       THEN /\ resp' = [proc |-> r, op |-> "create", code |-> "NOT_FOUND", id |-> prID]
            /\ UNCHANGED req
       ELSE IF prExists(prID)
       THEN /\ resp' = [proc |-> r, op |-> "create", code |-> "PR_EXISTS", id |-> prID]
            /\ UNCHANGED req
       ELSE /\ resp' = NoResp
            /\ req' = [req EXCEPT ![r] =
                         [op |-> "create", pc |-> "insert", pr |-> prID,
                          author |-> authorID, team |-> users[authorID].team,
                          todo |-> <<>>, assigned |-> <<>>, createdAt |-> NULL]]
    /\ UNCHANGED <<teams, users, prs, reviewers, now>>

\* SELECT EXISTS(SELECT 1 FROM pull_requests WHERE pull_request_id = $1)
pullRequestCreateHandler(r, prID, authorID) ==
    /\ req[r].pc = "idle"
    /\ IF prExists(prID)
       THEN /\ resp' = [proc |-> r, op |-> "create", code |-> "PR_EXISTS", id |-> prID]
            /\ UNCHANGED req
       ELSE /\ resp' = NoResp
            /\ req' = [req EXCEPT ![r] =
                         [op |-> "create", pc |-> "author", pr |-> prID,
                          author |-> authorID, team |-> NoTeam,
                          todo |-> <<>>, assigned |-> <<>>, createdAt |-> NULL]]
    /\ UNCHANGED <<teams, users, prs, reviewers, now>>

\* the handler going on to the INSERT without looking for the author's row
pullRequestCreateAuthor_NoLookup(r) ==
    /\ req[r].op = "create"
    /\ req[r].pc = "author"
    /\ resp' = NoResp
    /\ req' = [req EXCEPT ![r].pc = "insert",
                          ![r].team = users[req[r].author].team]
    /\ UNCHANGED <<teams, users, prs, reviewers, now>>

\* SELECT team_name FROM users WHERE user_id = $1
pullRequestCreateAuthor(r) ==
    /\ req[r].op = "create"
    /\ req[r].pc = "author"
    /\ IF ~userExists(req[r].author)
       THEN /\ resp' = [proc |-> r, op |-> "create", code |-> "NOT_FOUND", id |-> req[r].pr]
            /\ req' = [req EXCEPT ![r] = Idle]
       ELSE /\ resp' = NoResp
            /\ req' = [req EXCEPT ![r].pc = "insert",
                                  ![r].team = users[req[r].author].team]
    /\ UNCHANGED <<teams, users, prs, reviewers, now>>

\* the INSERT with ON CONFLICT (pull_request_id) DO UPDATE: a stored row is
\* overwritten with the new request's values
pullRequestCreateInsert_Upsert(r) ==
    /\ req[r].op = "create"
    /\ req[r].pc = "insert"
    /\ now < MaxTime
    /\ now' = now + 1
    /\ prs' = [prs EXCEPT ![req[r].pr] =
                 [author |-> req[r].author, status |-> "OPEN",
                  createdAt |-> now + 1, mergedAt |-> NULL]]
    /\ resp' = NoResp
    /\ req' = [req EXCEPT ![r].pc = "candidates", ![r].createdAt = now + 1]
    /\ UNCHANGED <<teams, users, reviewers>>

\* INSERT INTO pull_requests (...) VALUES ($1, $2, $3, 'OPEN', CURRENT_TIMESTAMP)
\* RETURNING created_at; the primary key rejects an id inserted meanwhile
pullRequestCreateInsert(r) ==
    /\ req[r].op = "create"
    /\ req[r].pc = "insert"
    /\ IF prExists(req[r].pr)
       THEN /\ resp' = [proc |-> r, op |-> "create", code |-> "INTERNAL", id |-> req[r].pr]
            /\ req' = [req EXCEPT ![r] = Idle]
            /\ UNCHANGED <<prs, now>>
       ELSE /\ now < MaxTime
            /\ now' = now + 1
            /\ prs' = [prs EXCEPT ![req[r].pr] =
                         [author |-> req[r].author, status |-> "OPEN",
                          createdAt |-> now + 1, mergedAt |-> NULL]]
            /\ resp' = NoResp
            /\ req' = [req EXCEPT ![r].pc = "candidates", ![r].createdAt = now + 1]
    /\ UNCHANGED <<teams, users, reviewers>>

pullRequestCreated(r, assigned) ==
    [proc |-> r, op |-> "create", code |-> "OK", id |-> req[r].pr,
     pr |-> [author |-> req[r].author, status |-> "OPEN",
             createdAt |-> req[r].createdAt, reviewers |-> assigned]]

\* the handler with assignReviewers(reviewers, 3)
pullRequestCreateCandidates_Three(r) ==
    /\ req[r].op = "create"
    /\ req[r].pc = "candidates"
    /\ \E candidates \in Orders(getActiveTeamMembers(req[r].team, req[r].author)) :
         \E assigned \in assignReviewers(candidates, 3) :
            IF assigned = <<>>
            THEN /\ resp' = pullRequestCreated(r, assigned)
                 /\ req' = [req EXCEPT ![r] = Idle]
            ELSE /\ resp' = NoResp
                 /\ req' = [req EXCEPT ![r].pc = "reviewers",
                                       ![r].todo = assigned,
                                       ![r].assigned = assigned]
    /\ UNCHANGED <<teams, users, prs, reviewers, now>>

\* reviewers := getActiveTeamMembers(authorTeam, req.AuthorID) in the order
\* the rows come back; assignedReviewers := assignReviewers(reviewers, 2)
pullRequestCreateCandidates(r) ==
    /\ req[r].op = "create"
    /\ req[r].pc = "candidates"
    /\ \E candidates \in Orders(getActiveTeamMembers(req[r].team, req[r].author)) :
         \E assigned \in assignReviewers(candidates, 2) :
            IF assigned = <<>>
            THEN /\ resp' = pullRequestCreated(r, assigned)
                 /\ req' = [req EXCEPT ![r] = Idle]
            ELSE /\ resp' = NoResp
                 /\ req' = [req EXCEPT ![r].pc = "reviewers",
                                       ![r].todo = assigned,
                                       ![r].assigned = assigned]
    /\ UNCHANGED <<teams, users, prs, reviewers, now>>

\* INSERT INTO pr_reviewers (pull_request_id, user_id) VALUES ($1, $2), once
\* per assigned reviewer; the primary key rejects a link that already exists
pullRequestCreateReviewer(r) ==
    /\ req[r].op = "create"
    /\ req[r].pc = "reviewers"
    /\ LET reviewerID == Head(req[r].todo)
           rest       == Tail(req[r].todo)
       IN /\ <<req[r].pr, reviewerID>> \notin txDel \cup txAdd
          /\ IF reviewerID \in reviewers[req[r].pr]
             THEN /\ resp' = [proc |-> r, op |-> "create", code |-> "INTERNAL",
                              id |-> req[r].pr]
                  /\ req' = [req EXCEPT ![r] = Idle]
                  /\ UNCHANGED reviewers
             ELSE /\ reviewers' = [reviewers EXCEPT ![req[r].pr] = @ \cup {reviewerID}]
                  /\ IF rest = <<>>
                     THEN /\ resp' = pullRequestCreated(r, req[r].assigned)
                          /\ req' = [req EXCEPT ![r] = Idle]
                     ELSE /\ resp' = NoResp
                          /\ req' = [req EXCEPT ![r].todo = rest]
    /\ UNCHANGED <<teams, users, prs, now>>

(* --------------------- POST /pullRequest/reassign --------------------- *)
\* the handler without the "status == MERGED" return
pullRequestReassignHandler_NoMergedCheck(r, prID, oldUserID) ==
    /\ req[r].pc = "idle"
    /\ IF ~prExists(prID)
       THEN /\ resp' = [proc |-> r, op |-> "reassign", code |-> "NOT_FOUND",
                        id |-> prID, old |-> oldUserID]
            /\ UNCHANGED req
       ELSE /\ resp' = NoResp
            /\ req' = [req EXCEPT ![r] =
                         [op |-> "reassign", pc |-> "isAssigned", pr |-> prID,
                          old |-> oldUserID, team |-> NoTeam, author |-> NoUser,
                          cur |-> {}, new |-> NoUser, row |-> NoPRRow]]
    /\ UNCHANGED <<teams, users, prs, reviewers, now>>

\* SELECT status FROM pull_requests WHERE pull_request_id = $1
pullRequestReassignHandler(r, prID, oldUserID) ==
    /\ req[r].pc = "idle"
    /\ IF ~prExists(prID)
       THEN /\ resp' = [proc |-> r, op |-> "reassign", code |-> "NOT_FOUND",
                        id |-> prID, old |-> oldUserID]
            /\ UNCHANGED req
       ELSE IF prs[prID].status = "MERGED"
       THEN /\ resp' = [proc |-> r, op |-> "reassign", code |-> "PR_MERGED",
                        id |-> prID, old |-> oldUserID]
            /\ UNCHANGED req
       ELSE /\ resp' = NoResp
            /\ req' = [req EXCEPT ![r] =
                         [op |-> "reassign", pc |-> "isAssigned", pr |-> prID,
                          old |-> oldUserID, team |-> NoTeam, author |-> NoUser,
                          cur |-> {}, new |-> NoUser, row |-> NoPRRow]]
    /\ UNCHANGED <<teams, users, prs, reviewers, now>>

reassignError(r, code) ==
    [proc |-> r, op |-> "reassign", code |-> code, id |-> req[r].pr, old |-> req[r].old]

\* the handler without the "!isAssigned" return
pullRequestReassignIsAssigned_NoCheck(r) ==
    /\ req[r].op = "reassign"
    /\ req[r].pc = "isAssigned"
    /\ resp' = NoResp
    /\ req' = [req EXCEPT ![r].pc = "team"]
    /\ UNCHANGED <<teams, users, prs, reviewers, now>>

\* SELECT EXISTS(SELECT 1 FROM pr_reviewers WHERE pull_request_id = $1 AND user_id = $2)
pullRequestReassignIsAssigned(r) ==
    /\ req[r].op = "reassign"
    /\ req[r].pc = "isAssigned"
    /\ IF req[r].old \notin reviewers[req[r].pr]
       THEN /\ resp' = reassignError(r, "NOT_ASSIGNED")
            /\ req' = [req EXCEPT ![r] = Idle]
       ELSE /\ resp' = NoResp
            /\ req' = [req EXCEPT ![r].pc = "team"]
    /\ UNCHANGED <<teams, users, prs, reviewers, now>>

\* SELECT team_name FROM users WHERE user_id = $1 (the old reviewer's row
\* exists: pr_reviewers.user_id references users and no row is ever deleted);
\* SELECT author_id FROM pull_requests WHERE pull_request_id = $1 (author_id
\* is written once, by the INSERT, so this read yields the same at any time)
pullRequestReassignTeam(r) ==
    /\ req[r].op = "reassign"
    /\ req[r].pc = "team"
    /\ req' = [req EXCEPT ![r].pc = "current",
                          ![r].team = users[req[r].old].team,
                          ![r].author = prs[req[r].pr].author]
    /\ resp' = NoResp
    /\ UNCHANGED <<teams, users, prs, reviewers, now>>

\* currentReviewers := getCurrentReviewers(req.PullRequestID)
pullRequestReassignCurrent(r) ==
    /\ req[r].op = "reassign"
    /\ req[r].pc = "current"
    /\ req' = [req EXCEPT ![r].pc = "candidates",
                          ![r].cur = getCurrentReviewers(req[r].pr)]
    /\ resp' = NoResp
    /\ UNCHANGED <<teams, users, prs, reviewers, now>>

\* the handler with the candidates excluding currentReviewers only
pullRequestReassignCandidates_NoAuthor(r) ==
    /\ req[r].op = "reassign"
    /\ req[r].pc = "candidates"
    /\ LET candidates == getActiveTeamMembersExcluding(req[r].team, req[r].cur)
       IN IF candidates = {}
          THEN /\ resp' = reassignError(r, "NO_CANDIDATE")
               /\ req' = [req EXCEPT ![r] = Idle]
          ELSE \E newReviewerID \in selectRandomCandidate(candidates) :
                  /\ resp' = NoResp
                  /\ req' = [req EXCEPT ![r].pc = "update", ![r].new = newReviewerID]
    /\ UNCHANGED <<teams, users, prs, reviewers, now>>

\* candidates := getActiveTeamMembersExcluding(oldReviewerTeam,
\* append(currentReviewers, authorID)); newReviewerID := selectRandomCandidate(candidates)
pullRequestReassignCandidates(r) ==
    /\ req[r].op = "reassign"
    /\ req[r].pc = "candidates"
    /\ LET candidates ==
             getActiveTeamMembersExcluding(req[r].team, req[r].cur \cup {req[r].author})
       IN IF candidates = {}
          THEN /\ resp' = reassignError(r, "NO_CANDIDATE")
               /\ req' = [req EXCEPT ![r] = Idle]
          ELSE \E newReviewerID \in selectRandomCandidate(candidates) :
                  /\ resp' = NoResp
                  /\ req' = [req EXCEPT ![r].pc = "update", ![r].new = newReviewerID]
    /\ UNCHANGED <<teams, users, prs, reviewers, now>>

\* the UPDATE on a table without the primary key: a link that exists is
\* written a second time and nothing is rejected
pullRequestReassignUpdate_NoKey(r) ==
    /\ req[r].op = "reassign"
    /\ req[r].pc = "update"
    /\ reviewers' = [reviewers EXCEPT ![req[r].pr] =
                       IF req[r].old \in @ THEN (@ \ {req[r].old}) \cup {req[r].new} ELSE @]
    /\ resp' = NoResp
    /\ req' = [req EXCEPT ![r].pc = "getPR"]
    /\ UNCHANGED <<teams, users, prs, now>>

\* an INSERT of the new link in place of the UPDATE: the old link stays
pullRequestReassignUpdate_Insert(r) ==
    /\ req[r].op = "reassign"
    /\ req[r].pc = "update"
    /\ reviewers' = [reviewers EXCEPT ![req[r].pr] = @ \cup {req[r].new}]
    /\ resp' = NoResp
    /\ req' = [req EXCEPT ![r].pc = "getPR"]
    /\ UNCHANGED <<teams, users, prs, now>>

\* the UPDATE without "AND user_id = $3": every link of the PR is rewritten
pullRequestReassignUpdate_AllRows(r) ==
    /\ req[r].op = "reassign"
    /\ req[r].pc = "update"
    /\ reviewers' = [reviewers EXCEPT ![req[r].pr] = {req[r].new}]
    /\ resp' = NoResp
    /\ req' = [req EXCEPT ![r].pc = "getPR"]
    /\ UNCHANGED <<teams, users, prs, now>>

\* UPDATE pr_reviewers SET user_id = $1 WHERE pull_request_id = $2 AND user_id = $3;
\* no row matching is no error, a second (pr, new) row a primary key violation
pullRequestReassignUpdate(r) ==
    /\ req[r].op = "reassign"
    /\ req[r].pc = "update"
    /\ LET p == req[r].pr
           old == req[r].old
           new == req[r].new
       IN /\ old \in reviewers[p] =>
                /\ <<p, old>> \notin txDel
                /\ <<p, new>> \notin txDel \cup txAdd
          /\ IF old \notin reviewers[p]
             THEN /\ resp' = NoResp
                  /\ req' = [req EXCEPT ![r].pc = "getPR"]
                  /\ UNCHANGED reviewers
             ELSE IF new # old /\ new \in reviewers[p]
             THEN /\ resp' = reassignError(r, "INTERNAL")
                  /\ req' = [req EXCEPT ![r] = Idle]
                  /\ UNCHANGED reviewers
             ELSE /\ reviewers' = [reviewers EXCEPT ![p] = (@ \ {old}) \cup {new}]
                  /\ resp' = NoResp
                  /\ req' = [req EXCEPT ![r].pc = "getPR"]
    /\ UNCHANGED <<teams, users, prs, now>>

(* ------------------------ POST /team/deactivate ----------------------- *)
\* pr_reviewers as the statements of the transaction of request r see it:
\* the committed rows, with the transaction's own changes applied
txReviewers(r, p) ==
    (reviewers[p] \ {u \in Users : <<p, u>> \in req[r].txDel})
        \cup {u \in Users : <<p, u>> \in req[r].txAdd}

\* SELECT EXISTS(SELECT 1 FROM teams WHERE team_name = $1)
teamDeactivateHandler(r, teamName) ==
    /\ req[r].pc = "idle"
    /\ \A q \in Procs : req[q].op # "deactivate"
    /\ IF teamName \notin teams
       THEN /\ resp' = [proc |-> r, op |-> "deactivate", code |-> "NOT_FOUND",
                        team |-> teamName]
            /\ UNCHANGED req
       ELSE /\ resp' = NoResp
            /\ req' = [req EXCEPT ![r] =
                         [op |-> "deactivate", pc |-> "begin", team |-> teamName,
                          usersToDeactivate |-> <<>>, prsToReassign |-> <<>>,
                          cur |-> {}, new |-> NoUser, txDel |-> {}, txAdd |-> {},
                          reassignments |-> <<>>, failedReassignments |-> <<>>]]
    /\ UNCHANGED <<teams, users, prs, reviewers, now>>

\* tx := db.Begin();
\* SELECT user_id FROM users WHERE team_name = $1 AND is_active = true
teamDeactivateBegin(r) ==
    /\ req[r].op = "deactivate"
    /\ req[r].pc = "begin"
    /\ \E list \in Orders({u \in Users : users[u].team = req[r].team /\ users[u].active}) :
          req' = [req EXCEPT ![r].usersToDeactivate = list,
                             ![r].pc = IF list = <<>> THEN "commit" ELSE "openPRs"]
    /\ resp' = NoResp
    /\ UNCHANGED <<teams, users, prs, reviewers, now>>

\* the query without "AND pr.status = 'OPEN'"
teamDeactivateOpenPRs_AnyStatus(r) ==
    /\ req[r].op = "deactivate"
    /\ req[r].pc = "openPRs"
    /\ LET userID == Head(req[r].usersToDeactivate)
           rest   == Tail(req[r].usersToDeactivate)
       IN \E list \in Orders({p \in PRs : /\ prExists(p)
                                          /\ userID \in txReviewers(r, p)}) :
             req' = IF list # <<>>
                    THEN [req EXCEPT ![r].prsToReassign = list, ![r].pc = "current"]
                    ELSE [req EXCEPT ![r].usersToDeactivate = rest,
                                     ![r].pc = IF rest = <<>> THEN "commit" ELSE "openPRs"]
    /\ resp' = NoResp
    /\ UNCHANGED <<teams, users, prs, reviewers, now>>

\* SELECT pr.pull_request_id, pr.author_id FROM pull_requests pr JOIN pr_reviewers r ...
\* WHERE r.user_id = $1 AND pr.status = 'OPEN', for the user at the head of the loop
teamDeactivateOpenPRs(r) ==
    /\ req[r].op = "deactivate"
    /\ req[r].pc = "openPRs"
    /\ LET userID == Head(req[r].usersToDeactivate)
           rest   == Tail(req[r].usersToDeactivate)
       IN \E list \in Orders({p \in PRs : /\ prs[p].status = "OPEN"
                                          /\ userID \in txReviewers(r, p)}) :
             req' = IF list # <<>>
                    THEN [req EXCEPT ![r].prsToReassign = list, ![r].pc = "current"]
                    ELSE [req EXCEPT ![r].usersToDeactivate = rest,
                                     ![r].pc = IF rest = <<>> THEN "commit" ELSE "openPRs"]
    /\ resp' = NoResp
    /\ UNCHANGED <<teams, users, prs, reviewers, now>>

\* the handler listing the user's OPEN PRs again after it read the current
\* reviewers, in place of going on to the replacement
teamDeactivateCurrent_Relist(r) ==
    /\ req[r].op = "deactivate"
    /\ req[r].pc = "current"
    /\ req' = [req EXCEPT ![r].cur = txReviewers(r, Head(req[r].prsToReassign)),
                          ![r].pc = "openPRs"]
    /\ resp' = NoResp
    /\ UNCHANGED <<teams, users, prs, reviewers, now>>

\* SELECT user_id FROM pr_reviewers WHERE pull_request_id = $1, for the PR
\* at the head of prsToReassign
teamDeactivateCurrent(r) ==
    /\ req[r].op = "deactivate"
    /\ req[r].pc = "current"
    /\ req' = [req EXCEPT ![r].cur = txReviewers(r, Head(req[r].prsToReassign)),
                          ![r].pc = "replacement"]
    /\ resp' = NoResp
    /\ UNCHANGED <<teams, users, prs, reviewers, now>>

\* the replacement query with $2 = currentReviewers, the author left out
teamDeactivateReplacement_NoAuthor(r) ==
    /\ req[r].op = "deactivate"
    /\ req[r].pc = "replacement"
    /\ LET found == {u \in Users : /\ users[u].team = req[r].team
                                   /\ users[u].active
                                   /\ u \notin req[r].cur}
       IN IF found = {}
          THEN req' = [req EXCEPT ![r].new = NoUser, ![r].pc = "write"]
          ELSE \E newReviewerID \in found :
                  req' = [req EXCEPT ![r].new = newReviewerID, ![r].pc = "write"]
    /\ resp' = NoResp
    /\ UNCHANGED <<teams, users, prs, reviewers, now>>

\* a replacement query that never returns a row
teamDeactivateReplacement_NeverFound(r) ==
    /\ req[r].op = "deactivate"
    /\ req[r].pc = "replacement"
    /\ req' = [req EXCEPT ![r].new = NoUser, ![r].pc = "write"]
    /\ resp' = NoResp
    /\ UNCHANGED <<teams, users, prs, reviewers, now>>

\* SELECT user_id FROM users WHERE team_name = $1 AND is_active = true
\* AND user_id != ALL($2) LIMIT 1, with $2 = append(currentReviewers, pr.AuthorID);
\* LIMIT 1 without ORDER BY returns any one matching row
teamDeactivateReplacement(r) ==
    /\ req[r].op = "deactivate"
    /\ req[r].pc = "replacement"
    /\ LET pr == Head(req[r].prsToReassign)
           excludeList == req[r].cur \cup {prs[pr].author}
           found == {u \in Users : /\ users[u].team = req[r].team
                                   /\ users[u].active
                                   /\ u \notin excludeList}
       IN IF found = {}
          THEN req' = [req EXCEPT ![r].new = NoUser, ![r].pc = "write"]
          ELSE \E newReviewerID \in found :
                  req' = [req EXCEPT ![r].new = newReviewerID, ![r].pc = "write"]
    /\ resp' = NoResp
    /\ UNCHANGED <<teams, users, prs, reviewers, now>>

\* the loop counters after the PR at the head of prsToReassign is done
teamDeactivateNext(q) ==
    LET prsRest   == Tail(q.prsToReassign)
        usersRest == Tail(q.usersToDeactivate)
    IN IF prsRest # <<>>
       THEN [q EXCEPT !.prsToReassign = prsRest, !.pc = "current"]
       ELSE [q EXCEPT !.prsToReassign = <<>>, !.usersToDeactivate = usersRest,
                      !.pc = IF usersRest = <<>> THEN "commit" ELSE "openPRs"]

\* sql.ErrNoRows: DELETE FROM pr_reviewers WHERE pull_request_id = $1 AND user_id = $2;
\* otherwise: UPDATE pr_reviewers SET user_id = $1 WHERE pull_request_id = $2 AND user_id = $3
teamDeactivateWrite(r) ==
    /\ req[r].op = "deactivate"
    /\ req[r].pc = "write"
    /\ LET q      == req[r]
           pr     == Head(q.prsToReassign)
           userID == Head(q.usersToDeactivate)
           link   == <<pr, userID>>
           seen   == userID \in txReviewers(r, pr)
           \* the row leaves the transaction's view
           del    == IF link \in q.txAdd THEN q.txDel ELSE q.txDel \cup {link}
           add    == q.txAdd \ {link}
       IN IF q.new = NoUser
          THEN /\ req' = [req EXCEPT ![r] =
                            teamDeactivateNext(
                              [q EXCEPT !.txDel = IF seen THEN del ELSE @,
                                        !.txAdd = IF seen THEN add ELSE @,
                                        !.cur = {},
                                        !.failedReassignments = Append(@, pr)])]
               /\ resp' = NoResp
          ELSE IF seen /\ q.new \in txReviewers(r, pr)
          THEN \* primary key violation: the handler returns, the deferred
               \* Rollback discards the transaction
               /\ req' = [req EXCEPT ![r] = Idle]
               /\ resp' = [proc |-> r, op |-> "deactivate", code |-> "INTERNAL",
                           team |-> q.team]
          ELSE /\ req' = [req EXCEPT ![r] =
                            teamDeactivateNext(
                              [q EXCEPT !.txDel = IF seen THEN del ELSE @,
                                        !.txAdd = IF seen THEN add \cup {<<pr, q.new>>} ELSE @,
                                        !.cur = {}, !.new = NoUser,
                                        !.reassignments =
                                            Append(@, [pr_id |-> pr, old_reviewer |-> userID,
                                                       new_reviewer |-> q.new])])]
               /\ resp' = NoResp
    /\ UNCHANGED <<teams, users, prs, reviewers, now>>

\* the commit without the UPDATE of users
teamDeactivateCommit_NoUpdate(r) ==
    /\ req[r].op = "deactivate"
    /\ req[r].pc = "commit"
    /\ reviewers' = [p \in PRs |-> txReviewers(r, p)]
    /\ resp' = [proc |-> r, op |-> "deactivate", code |-> "OK",
                team |-> req[r].team,
                deactivated_count |-> 0,
                reassignments |-> req[r].reassignments,
                failed_reassignments |-> req[r].failedReassignments]
    /\ req' = [req EXCEPT ![r] = Idle]
    /\ UNCHANGED <<teams, users, prs, now>>

\* UPDATE users SET is_active = false WHERE team_name = $1; tx.Commit().
\* Nothing follows the UPDATE inside the transaction, so its effect and the
\* reviewer changes become visible together, at the commit
teamDeactivateCommit(r) ==
    /\ req[r].op = "deactivate"
    /\ req[r].pc = "commit"
    /\ LET rows == {u \in Users : users[u].team = req[r].team}
       IN /\ users' = [u \in Users |->
                         IF u \in rows THEN [users[u] EXCEPT !.active = FALSE] ELSE users[u]]
          /\ reviewers' = [p \in PRs |-> txReviewers(r, p)]
          /\ resp' = [proc |-> r, op |-> "deactivate", code |-> "OK",
                      team |-> req[r].team,
                      deactivated_count |-> Cardinality(rows),
                      reassignments |-> req[r].reassignments,
                      failed_reassignments |-> req[r].failedReassignments]
    /\ req' = [req EXCEPT ![r] = Idle]
    /\ UNCHANGED <<teams, prs, now>>

(* --------------------------- storage faults --------------------------- *)
\* a failing statement that leaves the transaction's writes in the tables
teamDeactivateFail_NoRollback(r) ==
    /\ req[r].op = "deactivate"
    /\ reviewers' = [p \in PRs |-> txReviewers(r, p)]
    /\ resp' = [proc |-> r, op |-> "deactivate", code |-> "INTERNAL", team |-> req[r].team]
    /\ req' = [req EXCEPT ![r] = Idle]
    /\ UNCHANGED <<teams, users, prs, now>>

\* db.Begin, a statement of the transaction or tx.Commit returns an error: the
\* handler answers 500 and returns, and the deferred tx.Rollback discards what
\* the transaction wrote.  (A failed read of currentReviewers only leaves its
\* closure; the transaction is then aborted and the replacement query that
\* follows returns the error that ends the handler.)
teamDeactivateFail(r) ==
    /\ req[r].op = "deactivate"
    /\ resp' = [proc |-> r, op |-> "deactivate", code |-> "INTERNAL", team |-> req[r].team]
    /\ req' = [req EXCEPT ![r] = Idle]
    /\ UNCHANGED <<teams, users, prs, reviewers, now>>

\* INSERT INTO pr_reviewers ... returns an error: the handler answers 500 and
\* returns; the statements before it were committed one by one
pullRequestCreateReviewerFail(r) ==
    /\ req[r].op = "create"
    /\ req[r].pc = "reviewers"
    /\ resp' = [proc |-> r, op |-> "create", code |-> "INTERNAL", id |-> req[r].pr]
    /\ req' = [req EXCEPT ![r] = Idle]
    /\ UNCHANGED <<teams, users, prs, reviewers, now>>

\* db.Query in getActiveTeamMembers returns an error: the function returns an
\* empty list, assignReviewers returns it and the handler answers 201
pullRequestCreateCandidatesFail(r) ==
    /\ req[r].op = "create"
    /\ req[r].pc = "candidates"
    /\ resp' = pullRequestCreated(r, <<>>)
    /\ req' = [req EXCEPT ![r] = Idle]
    /\ UNCHANGED <<teams, users, prs, reviewers, now>>

\* db.Query in getCurrentReviewers returns an error: the function returns an
\* empty list and the handler goes on with it
pullRequestReassignCurrentFail(r) ==
    /\ req[r].op = "reassign"
    /\ req[r].pc = "current"
    /\ req' = [req EXCEPT ![r].pc = "candidates", ![r].cur = {}]
    /\ resp' = NoResp
    /\ UNCHANGED <<teams, users, prs, reviewers, now>>

\* db.Query in getActiveTeamMembersExcluding returns an error: the function
\* returns an empty list and the handler answers NO_CANDIDATE
pullRequestReassignCandidatesFail(r) ==
    /\ req[r].op = "reassign"
    /\ req[r].pc = "candidates"
    /\ resp' = reassignError(r, "NO_CANDIDATE")
    /\ req' = [req EXCEPT ![r] = Idle]
    /\ UNCHANGED <<teams, users, prs, reviewers, now>>

\* INSERT INTO teams returns an error: the handler answers 500 and returns
teamAddInsertFail(r) ==
    /\ req[r].op = "teamAdd"
    /\ req[r].pc = "insert"
    /\ resp' = [proc |-> r, op |-> "teamAdd", code |-> "INTERNAL", team |-> req[r].team]
    /\ req' = [req EXCEPT ![r] = Idle]
    /\ UNCHANGED <<teams, users, prs, reviewers, now>>

\* the INSERT ... ON CONFLICT of one member returns an error: the handler
\* answers 500 and returns; the team row and the members upserted before it
\* were committed one by one
teamAddUpsertFail(r) ==
    /\ req[r].op = "teamAdd"
    /\ req[r].pc = "upsert"
    /\ resp' = [proc |-> r, op |-> "teamAdd", code |-> "INTERNAL", team |-> req[r].team]
    /\ req' = [req EXCEPT ![r] = Idle]
    /\ UNCHANGED <<teams, users, prs, reviewers, now>>

(* ------------------------------- main --------------------------------- *)
\* for i := 0; i < 30; i++
Attempts == 30

\* the request slot before ListenAndServe: no handler can begin
Closed == [op |-> "none", pc |-> "closed"]

\* main before the loop: var err error
mainStart == [op |-> "main", pc |-> "open", i |-> 0, err |-> "nil"]

\* the loop exit without the "if err != nil { log.Fatal }"
mainCheck_NoFatal(m) ==
    /\ req[m].op = "main"
    /\ req[m].pc = "check"
    /\ req' = [req EXCEPT ![m].pc = "initDB"]
    /\ resp' = NoResp
    /\ UNCHANGED <<teams, users, prs, reviewers, now>>

\* db, err = sql.Open("postgres", databaseURL), entered while i < 30
mainOpen(m) ==
    /\ req[m].op = "main"
    /\ req[m].pc = "open"
    /\ \E e \in {"nil", "open"} :
          req' = [req EXCEPT ![m].err = e, ![m].pc = IF e = "nil" THEN "ping" ELSE "sleep"]
    /\ resp' = NoResp
    /\ UNCHANGED <<teams, users, prs, reviewers, now>>

\* err = db.Ping(); if err == nil { break }
mainPing(m) ==
    /\ req[m].op = "main"
    /\ req[m].pc = "ping"
    /\ \E e \in {"nil", "ping"} :
          req' = [req EXCEPT ![m].err = e, ![m].pc = IF e = "nil" THEN "check" ELSE "sleep"]
    /\ resp' = NoResp
    /\ UNCHANGED <<teams, users, prs, reviewers, now>>

\* log.Printf, time.Sleep, i++ and the loop test
mainSleep(m) ==
    /\ req[m].op = "main"
    /\ req[m].pc = "sleep"
    /\ req' = [req EXCEPT ![m].i = @ + 1,
                          ![m].pc = IF req[m].i + 1 < Attempts THEN "open" ELSE "check"]
    /\ resp' = NoResp
    /\ UNCHANGED <<teams, users, prs, reviewers, now>>

\* if err != nil { log.Fatal(...) }
mainCheck(m) ==
    /\ req[m].op = "main"
    /\ req[m].pc = "check"
    /\ req' = [req EXCEPT ![m].pc = IF req[m].err # "nil" THEN "fatal" ELSE "initDB"]
    /\ resp' = NoResp
    /\ UNCHANGED <<teams, users, prs, reviewers, now>>

\* initDB(), the routes and server.ListenAndServe(): handlers can begin
mainServe(m, r) ==
    /\ req[m].op = "main"
    /\ req[m].pc = "initDB"
    /\ req' = [req EXCEPT ![m].pc = "serve", ![r] = Idle]
    /\ resp' = NoResp
    /\ UNCHANGED <<teams, users, prs, reviewers, now>>

(* -------------------- assignReviewers, step by step ------------------- *)
\* a call of assignReviewers(candidates, maxCount) on its own: the frame of
\* the call with the caller's list (candidates), the copy (shuffled), the
\* loop index (i, 1-based) and the number of lines logged
assignReviewersFrame(candidates, maxCount) ==
    [op |-> "assign", pc |-> "call", candidates |-> candidates, maxCount |-> maxCount,
     shuffled |-> <<>>, i |-> 0, logged |-> 0, result |-> <<>>]

\* if len(candidates) <= maxCount { return candidates }; make and copy
assignReviewersCall(r) ==
    /\ req[r].op = "assign"
    /\ req[r].pc = "call"
    /\ req' = IF Len(req[r].candidates) <= req[r].maxCount
              THEN [req EXCEPT ![r].pc = "done", ![r].result = req[r].candidates]
              ELSE [req EXCEPT ![r].pc = "shuffle",
                               ![r].shuffled = req[r].candidates,
                               ![r].i = Len(req[r].candidates)]
    /\ resp' = NoResp
    /\ UNCHANGED <<teams, users, prs, reviewers, now>>

\* the swap on the caller's list: no copy was made, shuffled is candidates
assignReviewersSwap_InPlace(r) ==
    /\ req[r].op = "assign"
    /\ req[r].pc = "shuffle"
    /\ req[r].i >= 2
    /\ \E j \in 1..req[r].i :
          req' = [req EXCEPT ![r].shuffled = Swap(@, req[r].i, j),
                             ![r].candidates = Swap(@, req[r].i, j),
                             ![r].i = @ - 1]
    /\ resp' = NoResp
    /\ UNCHANGED <<teams, users, prs, reviewers, now>>

\* rand.Int succeeds: shuffled[i], shuffled[j] = shuffled[j], shuffled[i]; i--
assignReviewersSwap(r) ==
    /\ req[r].op = "assign"
    /\ req[r].pc = "shuffle"
    /\ req[r].i >= 2
    /\ \E j \in 1..req[r].i :
          req' = [req EXCEPT ![r].shuffled = Swap(@, req[r].i, j), ![r].i = @ - 1]
    /\ resp' = NoResp
    /\ UNCHANGED <<teams, users, prs, reviewers, now>>

\* rand.Int fails: log.Printf; continue
assignReviewersRandFail(r) ==
    /\ req[r].op = "assign"
    /\ req[r].pc = "shuffle"
    /\ req[r].i >= 2
    /\ req' = [req EXCEPT ![r].logged = @ + 1, ![r].i = @ - 1]
    /\ resp' = NoResp
    /\ UNCHANGED <<teams, users, prs, reviewers, now>>

\* return shuffled[:maxCount]
assignReviewersReturn(r) ==
    /\ req[r].op = "assign"
    /\ req[r].pc = "shuffle"
    /\ req[r].i < 2
    /\ req' = [req EXCEPT ![r].pc = "done",
                          ![r].result = SubSeq(req[r].shuffled, 1, req[r].maxCount)]
    /\ resp' = NoResp
    /\ UNCHANGED <<teams, users, prs, reviewers, now>>

(* ------------------------------- Next --------------------------------- *)
\* one step of request slot r; a new request takes its arguments from in
Step(r, in) ==
    \/ \E t \in in.teams, m \in in.members : teamAddHandler(r, t, m)
    \/ teamAddInsert(r)
    \/ teamAddUpsert(r)
    \/ \E u \in in.users, a \in BOOLEAN : usersSetIsActiveHandler(r, u, a)
    \/ \E p \in in.prs, u \in in.users : pullRequestCreateHandler(r, p, u)
    \/ pullRequestCreateAuthor(r)
    \/ pullRequestCreateInsert(r)
    \/ pullRequestCreateCandidates(r)
    \/ pullRequestCreateReviewer(r)
    \/ \E p \in in.prs : pullRequestMergeHandler(r, p)
    \/ pullRequestMergeUpdate(r)
    \/ getPullRequest(r)
    \/ getPullRequestReviewers(r)
    \/ \E p \in in.prs, u \in in.users : pullRequestReassignHandler(r, p, u)
    \/ pullRequestReassignIsAssigned(r)
    \/ pullRequestReassignTeam(r)
    \/ pullRequestReassignCurrent(r)
    \/ pullRequestReassignCandidates(r)
    \/ pullRequestReassignUpdate(r)
    \/ \E t \in in.teams : teamDeactivateHandler(r, t)
    \/ teamDeactivateBegin(r)
    \/ teamDeactivateOpenPRs(r)
    \/ teamDeactivateCurrent(r)
    \/ teamDeactivateReplacement(r)
    \/ teamDeactivateWrite(r)
    \/ teamDeactivateCommit(r)

\* member lists over the first n users: any of them, or all of them
ListsOf(n) == {m \in MemberLists(1) : \A i \in 1..Len(m) : m[i].user \in {UserSeq[k] : k \in 1..n}}

FullLists(n) == {m \in ListsOf(n) : Len(m) = n}

FirstUsers(n) == {UserSeq[k] : k \in 1..n}

\* requests served one after another, two teams that take members from each other
SeqInputs == [teams |-> Teams, members |-> ListsOf(3), users |-> FirstUsers(3), prs |-> PRs]

NextSeq == Step("r1", SeqInputs)

SpecSeq == Init /\ [][NextSeq]_vars

\* requests served one after another, one team with every user in it
WideInputs == [teams |-> {"t1"}, members |-> FullLists(4), users |-> Users, prs |-> PRs]

NextWide == Step("r1", WideInputs)

SpecWide == Init /\ [][NextWide]_vars

\* requests served concurrently, one team of three users
Inputs == [teams |-> {"t1"}, members |-> FullLists(3), users |-> FirstUsers(3), prs |-> PRs]

Next == \E r \in Procs : Step(r, Inputs)

Spec == Init /\ [][Next]_vars

\* the requests of SpecWide, each running to its answer: a handler that has
\* begun takes its next step (weak fairness; net/http runs a handler on its
\* goroutine until it returns). Served one after another, the one create and
\* the one merge that write a timestamp never find the clock at MaxTime
SpecLive == Init /\ [][NextWide]_vars /\ WF_vars(NextWide)

\* requests served one after another, one team of three users, with storage
\* calls that may fail
NextFault ==
    \/ Step("r1", Inputs)
    \/ teamDeactivateFail("r1")
    \/ pullRequestCreateReviewerFail("r1")
    \/ pullRequestCreateCandidatesFail("r1")
    \/ pullRequestReassignCurrentFail("r1")
    \/ pullRequestReassignCandidatesFail("r1")
    \/ teamAddInsertFail("r1")
    \/ teamAddUpsertFail("r1")

SpecFault == Init /\ [][NextFault]_vars

\* requests served one after another, two teams, with the read-only team get
NextGet ==
    \/ Step("r1", SeqInputs)
    \/ \E t \in Teams : teamGetHandler("r1", t)
    \/ teamGetMembers("r1")

SpecGet == Init /\ [][NextGet]_vars

\* one call of assignReviewers on any list of distinct users and any
\* maxCount from 0 to the number of users
InitAssign ==
    /\ teams = {}
    /\ users = [u \in Users |-> NoUserRow]
    /\ prs = [p \in PRs |-> NoPRRow]
    /\ reviewers = [p \in PRs |-> {}]
    /\ now = 0
    /\ \E S \in SUBSET Users : \E c \in Orders(S) : \E k \in 0..Len(UserSeq) :
          req = [r \in Procs |-> IF r = "r1" THEN assignReviewersFrame(c, k) ELSE Idle]
    /\ resp = NoResp

NextAssign ==
    \/ assignReviewersCall("r1")
    \/ assignReviewersSwap("r1")
    \/ assignReviewersRandFail("r1")
    \/ assignReviewersReturn("r1")

SpecAssign == InitAssign /\ [][NextAssign]_vars

\* the process from its start: main in slot r2, then team add and team get
\* requests in slot r1
InitStart ==
    /\ teams = {}
    /\ users = [u \in Users |-> NoUserRow]
    /\ prs = [p \in PRs |-> NoPRRow]
    /\ reviewers = [p \in PRs |-> {}]
    /\ now = 0
    /\ req = [r \in Procs |-> IF r = "r2" THEN mainStart ELSE Closed]
    /\ resp = NoResp

NextStart ==
    \/ mainOpen("r2")
    \/ mainPing("r2")
    \/ mainSleep("r2")
    \/ mainCheck("r2")
    \/ mainServe("r2", "r1")
    \/ \E t \in Teams, m \in ListsOf(1) : teamAddHandler("r1", t, m)
    \/ teamAddInsert("r1")
    \/ teamAddUpsert("r1")
    \/ \E t \in Teams : teamGetHandler("r1", t)
    \/ teamGetMembers("r1")

SpecStart == InitStart /\ [][NextStart]_vars

\* the member list that puts every user, active, into one team
AllActive == [i \in 1..Len(UserSeq) |-> [user |-> UserSeq[i], active |-> TRUE]]

\* one step of slot r of a team add of that list, of a create by the first
\* user or of a reassign
StepReassign(r) ==
    \/ teamAddHandler(r, "t1", AllActive)
    \/ teamAddInsert(r)
    \/ teamAddUpsert(r)
    \/ \E p \in PRs : pullRequestCreateHandler(r, p, UserSeq[1])
    \/ pullRequestCreateAuthor(r)
    \/ pullRequestCreateInsert(r)
    \/ pullRequestCreateCandidates(r)
    \/ pullRequestCreateReviewer(r)
    \/ \E p \in PRs, u \in Users : pullRequestReassignHandler(r, p, u)
    \/ pullRequestReassignIsAssigned(r)
    \/ pullRequestReassignTeam(r)
    \/ pullRequestReassignCurrent(r)
    \/ pullRequestReassignCandidates(r)
    \/ pullRequestReassignUpdate(r)
    \/ getPullRequest(r)
    \/ getPullRequestReviewers(r)

\* one step of slot r of a deactivation of that team
StepDeactivate(r) ==
    \/ teamDeactivateHandler(r, "t1")
    \/ teamDeactivateBegin(r)
    \/ teamDeactivateOpenPRs(r)
    \/ teamDeactivateCurrent(r)
    \/ teamDeactivateReplacement(r)
    \/ teamDeactivateWrite(r)
    \/ teamDeactivateCommit(r)

\* one step of slot r of a merge
StepMerge(r) ==
    \/ \E p \in PRs : pullRequestMergeHandler(r, p)
    \/ pullRequestMergeUpdate(r)

\* creates and reassigns served concurrently, one team of four users: an
\* author, two reviewers and one more candidate
NextRace == \E r \in Procs : StepReassign(r)

SpecRace == Init /\ [][NextRace]_vars

\* the same with team deactivations
NextCascade == \E r \in Procs : StepReassign(r) \/ StepDeactivate(r)

SpecCascade == Init /\ [][NextCascade]_vars

\* creates, merges and reassigns served concurrently, one team of four users
NextLifecycle == \E r \in Procs : StepReassign(r) \/ StepMerge(r)

SpecLifecycle == Init /\ [][NextLifecycle]_vars

(* ============================ properties ============================== *)
\* the step starts a request of kind op in slot r (it may answer at once)
Begins(r, op) ==
    /\ req[r].pc = "idle"
    /\ \/ req'[r].op = op
       \/ resp'.op = op /\ resp'.proc = r

\* the step writes the response of a request of kind op
Responds(op) == resp'.op = op

\* the active members of the team of user a, a excluded
ActiveTeammates(a) ==
    {u \in Users : users[u].team = users[a].team /\ users[u].active /\ u # a}

\* C1: in every reachable state, whatever the interleaving of team add,
\* setIsActive, create, merge, reassign and team deactivate, no PR's author is
\* one of the PR's reviewers
C1_AuthorNeverReviewer == \A p \in PRs : prs[p].author \notin reviewers[p]

\* a reassignment has answered and its replacement is a reviewer of the PR
C1_Witness ==
    /\ resp.op = "reassign"
    /\ resp.code = "OK"
    /\ resp.replaced_by \in reviewers[resp.id]
    /\ prs[resp.id].author \notin reviewers[resp.id]

\* C2: once a PR is MERGED its reviewer set never changes again, also when a
\* reassign or a team deactivation that read the PR as OPEN writes after the merge
C2_MergedReviewersFrozen ==
    [][\A p \in PRs : prs[p].status = "MERGED" => reviewers'[p] = reviewers[p]]_vars

\* C3: when a team deactivation commits, no user it deactivates is left as a
\* reviewer of an OPEN PR
C3_NoDeactivatedReviewer ==
    [][(Responds("deactivate") /\ resp'.code = "OK") =>
          \A u \in Users : (users[u].active /\ ~users'[u].active) =>
              \A p \in PRs : prs'[p].status = "OPEN" => u \notin reviewers'[p]]_vars

\* C4: a successful create assigns min(2, n) reviewers, n the number of active
\* members of the author's team other than the author, all of them such
\* members; with n = 0 the PR has no reviewer
C4_ReviewerCount ==
    (resp.op = "create" /\ resp.code = "OK") =>
        LET assigned == resp.pr.reviewers
            eligible == ActiveTeammates(resp.pr.author)
        IN /\ Len(assigned) = Min(2, Cardinality(eligible))
           /\ Cardinality(Range(assigned)) = Len(assigned)
           /\ Range(assigned) \subseteq eligible
           /\ reviewers[resp.id] = Range(assigned)
           /\ prs[resp.id].status = "OPEN"

\* a create chose two reviewers out of three candidates
C4_Witness ==
    /\ resp.op = "create"
    /\ resp.code = "OK"
    /\ Len(resp.pr.reviewers) = 2
    /\ Cardinality(ActiveTeammates(resp.pr.author)) = 3

\* C5: every user chosen as reviewer by create, by reassign or as replacement
\* in the deactivation cascade is active in the state its candidates are read from
C5_ChosenAreActive ==
    [][\A r \in Procs :
          /\ (req[r].op = "create" /\ req[r].pc = "candidates") =>
                \A u \in Range(IF req'[r].op = "create"
                               THEN req'[r].assigned ELSE resp'.pr.reviewers) :
                    users[u].active
          /\ (req[r].op = "reassign" /\ req[r].pc = "candidates" /\ req'[r].pc = "update") =>
                users[req'[r].new].active
          /\ (req[r].op = "deactivate" /\ req[r].pc = "replacement" /\ req'[r].new # NoUser) =>
                users[req'[r].new].active]_vars

\* a reassign chose a replacement while an inactive member of the old
\* reviewer's team, neither author nor reviewer, was there to be chosen
C5_Witness ==
    \E r \in Procs :
       /\ req[r].op = "reassign"
       /\ req[r].pc = "update"
       /\ users[req[r].new].active
       /\ \E u \in Users : /\ users[u].team = req[r].team
                           /\ ~users[u].active
                           /\ u \notin req[r].cur \cup {req[r].author}

\* C6: a reassign request on a MERGED PR answers PR_MERGED and leaves the
\* reviewer links as they are, whether or not old_user_id is assigned
C6_ReassignOnMerged ==
    [][\A r \in Procs : \A p \in PRs :
          (Begins(r, "reassign") /\ prs[p].status = "MERGED"
             /\ (req'[r].op = "reassign" => req'[r].pr = p)
             /\ (req'[r].op # "reassign" => resp'.id = p)) =>
               /\ Responds("reassign")
               /\ resp'.code = "PR_MERGED"
               /\ req'[r] = Idle
               /\ reviewers' = reviewers]_vars

\* PR_MERGED was the answer for a user who is not a reviewer of the PR
C6_Witness ==
    /\ resp.op = "reassign"
    /\ resp.code = "PR_MERGED"
    /\ resp.old \notin reviewers[resp.id]

\* C7: merging a PR that is already MERGED, one call after another, answers
\* without error with the stored status, mergedAt and reviewers, which are
\* those the first merge answered with, and changes no stored state
C7_MergeIdempotent ==
    [][\A p \in PRs : prs[p].status = "MERGED" =>
          /\ prs'[p] = prs[p]
          /\ reviewers'[p] = reviewers[p]
          /\ (Responds("merge") /\ resp'.id = p) =>
                /\ resp'.code = "OK"
                /\ resp'.pr = PRView(prs[p], reviewers[p])
          /\ \A r \in Procs :
                ((req[r].op = "merge" /\ req[r].pr = p /\ req'[r] # req[r]) \/
                 (Begins(r, "merge") /\ req'[r].op = "merge" /\ req'[r].pr = p)) =>
                    UNCHANGED <<teams, users, prs, reviewers, now>>]_vars

\* a merge that found the PR MERGED is about to answer
C7_Witness ==
    \E r \in Procs :
       /\ req[r].op = "merge"
       /\ req[r].status = "MERGED"
       /\ req[r].pc = "getReviewers"
       /\ req[r].row.mergedAt # NULL

\* C8: for any interleaving of merge requests, merged_at is written once:
\* once set it is never overwritten
C8_MergedAtWrittenOnce ==
    [][\A p \in PRs : prs[p].mergedAt # NULL => prs'[p].mergedAt = prs[p].mergedAt]_vars

\* C9: a successful reassignment of reviewer R on PR P writes a new reviewer
\* who is an active member of R's team, not P's author, not R and not yet a
\* reviewer of P
C9_ReplacementEligible ==
    [][\A r \in Procs :
          (req[r].op = "reassign" /\ req[r].pc = "update" /\ req'[r].pc = "getPR") =>
              LET P == req[r].pr
                  R == req[r].old
                  N == req[r].new
              IN /\ users[N].active
                 /\ users[N].team = users[R].team
                 /\ N # prs[P].author
                 /\ N # R
                 /\ N \notin reviewers[P]
                 /\ N \in reviewers'[P]]_vars

\* a reassignment answered with a replacement from another team than the author's
C9_Witness ==
    /\ resp.op = "reassign"
    /\ resp.code = "OK"
    /\ resp.replaced_by \in reviewers[resp.id]
    /\ users[resp.replaced_by].team # users[prs[resp.id].author].team

\* C10: a reassign request on an existing OPEN PR for a user who is not one of
\* its reviewers answers NOT_ASSIGNED and changes no stored state
C10_NotAssigned ==
    [][\A r \in Procs :
          /\ (Begins(r, "reassign") /\ req'[r].op = "reassign") =>
                UNCHANGED <<teams, users, prs, reviewers, now>>
          /\ (req[r].op = "reassign" /\ req[r].pc = "isAssigned"
                /\ req'[r] # req[r]
                /\ prs[req[r].pr].status = "OPEN"
                /\ req[r].old \notin reviewers[req[r].pr]) =>
                   /\ Responds("reassign")
                   /\ resp'.code = "NOT_ASSIGNED"
                   /\ resp'.id = req[r].pr
                   /\ resp'.old = req[r].old
                   /\ req'[r] = Idle
                   /\ UNCHANGED <<teams, users, prs, reviewers, now>>]_vars

\* NOT_ASSIGNED was the answer on an OPEN PR that has another reviewer
C10_Witness ==
    /\ resp.op = "reassign"
    /\ resp.code = "NOT_ASSIGNED"
    /\ prs[resp.id].status = "OPEN"
    /\ resp.old \notin reviewers[resp.id]
    /\ reviewers[resp.id] # {}

\* the active members of R's team that are neither P's author nor reviewers of P
Eligible(P, R) ==
    {u \in Users : /\ users[u].team = users[R].team
                   /\ users[u].active
                   /\ u \notin reviewers[P] \cup {prs[P].author}}

\* C11: a reassign request on an OPEN PR P for an assigned reviewer R answers
\* NO_CANDIDATE exactly when R's team has no active member outside P's author
\* and P's reviewers; the request then ends and the reviewer links, R's
\* included, are as before
C11_NoCandidate ==
    [][\A r \in Procs :
          /\ (Responds("reassign") /\ resp'.code = "NO_CANDIDATE" /\ resp'.proc = r) =>
                /\ req[r].op = "reassign"
                /\ req[r].pc = "candidates"
          /\ (req[r].op = "reassign" /\ req'[r] # req[r]
                /\ req[r].pc \in {"isAssigned", "team", "current"}
                /\ req[r].old \in reviewers[req[r].pr]) =>
                   /\ req'[r].op = "reassign"
                   /\ resp' = NoResp
                   /\ UNCHANGED <<teams, users, prs, reviewers, now>>
          /\ (req[r].op = "reassign" /\ req[r].pc = "candidates" /\ req'[r] # req[r]) =>
                LET P == req[r].pr
                    R == req[r].old
                IN /\ prs[P].status = "OPEN"
                   /\ R \in reviewers[P]
                   /\ (Responds("reassign") /\ resp'.code = "NO_CANDIDATE")
                         <=> (Eligible(P, R) = {})
                   /\ (Eligible(P, R) = {}) => /\ resp'.id = P
                                               /\ resp'.old = R
                                               /\ req'[r] = Idle
                   /\ UNCHANGED <<teams, users, prs, reviewers, now>>]_vars

\* NO_CANDIDATE was the answer for a reviewer whose team has another member,
\* who is inactive, the author or a reviewer of the PR
C11_Witness ==
    /\ resp.op = "reassign"
    /\ resp.code = "NO_CANDIDATE"
    /\ prs[resp.id].status = "OPEN"
    /\ resp.old \in reviewers[resp.id]
    /\ \E u \in Users : u # resp.old /\ users[u].team = users[resp.old].team

\* C12: a successful reassignment of reviewer R on PR P turns P's reviewer
\* set into (old set minus {R}) plus one new user N # R: the size is the same,
\* the other reviewers, P's status and author are untouched, no other step of
\* the request writes, and the response's replaced_by is N
C12_ReassignReplacesOne ==
    [][\A r \in Procs :
          /\ (req[r].op = "reassign" /\ req[r].pc = "update" /\ req'[r] # req[r]) =>
                LET P == req[r].pr
                    R == req[r].old
                    N == req[r].new
                IN /\ R \in reviewers[P]
                   /\ N # R
                   /\ N \notin reviewers[P]
                   /\ reviewers'[P] = (reviewers[P] \ {R}) \cup {N}
                   /\ Cardinality(reviewers'[P]) = Cardinality(reviewers[P])
                   /\ \A q \in PRs \ {P} : reviewers'[q] = reviewers[q]
                   /\ req'[r].pc = "getPR"
                   /\ UNCHANGED <<teams, users, prs, now>>
          /\ ((req[r].op = "reassign" /\ req[r].pc # "update" /\ req'[r] # req[r])
                \/ Begins(r, "reassign")) =>
                   UNCHANGED <<teams, users, prs, reviewers, now>>
          /\ (req[r].op = "reassign" /\ req[r].pc = "getPR" /\ req'[r] # req[r]) =>
                /\ req'[r].new = req[r].new
                /\ req'[r].old = req[r].old
                /\ req'[r].pr = req[r].pr
          /\ (Responds("reassign") /\ resp'.code = "OK" /\ resp'.proc = r) =>
                LET P == req[r].pr
                IN /\ resp'.id = P
                   /\ resp'.old = req[r].old
                   /\ resp'.replaced_by = req[r].new
                   /\ resp'.replaced_by \in reviewers[P]
                   /\ resp'.old \notin reviewers[P]
                   /\ resp'.pr.reviewers = reviewers[P]
                   /\ resp'.pr.status = "OPEN"
                   /\ resp'.pr.author = prs[P].author]_vars

\* a reassignment answered OK on a PR whose other reviewer is still there
C12_Witness ==
    /\ resp.op = "reassign"
    /\ resp.code = "OK"
    /\ resp.replaced_by \in reviewers[resp.id]
    /\ resp.old \notin reviewers[resp.id]
    /\ Cardinality(reviewers[resp.id]) = 2

\* C13: when a reassignment of R on P has answered OK and the same request
\* (P, R) is sent again with nothing in between, the repeat finds P OPEN and R
\* not among P's reviewers, answers NOT_ASSIGNED and writes nothing: no second
\* reviewer is replaced
C13_RepeatNotAssigned ==
    [][\A r \in Procs :
          /\ (resp.op = "reassign" /\ resp.code = "OK" /\ Begins(r, "reassign")
                /\ (req'[r].op = "reassign" =>
                       req'[r].pr = resp.id /\ req'[r].old = resp.old)
                /\ (req'[r].op # "reassign" =>
                       resp'.id = resp.id /\ resp'.old = resp.old)) =>
                   /\ req'[r].op = "reassign"
                   /\ req'[r].pc = "isAssigned"
                   /\ resp' = NoResp
                   /\ resp.old \notin reviewers'[resp.id]
                   /\ UNCHANGED <<teams, users, prs, reviewers, now>>
          /\ (req[r].op = "reassign" /\ req[r].pc = "isAssigned" /\ req'[r] # req[r]
                /\ req[r].old \notin reviewers[req[r].pr]) =>
                   /\ resp' = reassignError(r, "NOT_ASSIGNED")
                   /\ req'[r] = Idle
                   /\ UNCHANGED <<teams, users, prs, reviewers, now>>]_vars

\* the state a repeat starts from: the reassignment of R answered OK, R is
\* active and no reviewer any more, and the PR still has two reviewers that a
\* second replacement could take R for
C13_Witness ==
    /\ resp.op = "reassign"
    /\ resp.code = "OK"
    /\ \A r \in Procs : req[r] = Idle
    /\ prs[resp.id].status = "OPEN"
    /\ Cardinality(reviewers[resp.id]) = 2
    /\ resp.old \in Eligible(resp.id, resp.replaced_by)

\* C14: in the state right after a team deactivation has committed and
\* answered OK, every user whose team is the named team is inactive, and the
\* active-member queries for that team return nothing
C14_TeamInactiveAfterCommit ==
    (resp.op = "deactivate" /\ resp.code = "OK") =>
        /\ \A u \in Users : users[u].team = resp.team => ~users[u].active
        /\ getActiveTeamMembers(resp.team, NoUser) = {}
        /\ getActiveTeamMembersExcluding(resp.team, {}) = {}

\* a deactivation committed for a team of at least two users after its
\* cascade replaced a reviewer
C14_Witness ==
    /\ resp.op = "deactivate"
    /\ resp.code = "OK"
    /\ resp.reassignments # <<>>
    /\ Cardinality({u \in Users : users[u].team = resp.team}) >= 2

\* C15: the deactivated_count of a successful team deactivation is the number
\* of users of the team that were active when the operation started; users
\* already inactive are not counted
C15_CountIsSnapshot ==
    [][(Responds("deactivate") /\ resp'.code = "OK") =>
          resp'.deactivated_count =
              Cardinality({u \in Users : users[u].team = resp'.team /\ users[u].active})]_vars

\* the reviewers of PR p as the transaction of the deactivate request q sees them
txView(q, p) ==
    (reviewers[p] \ {u \in Users : <<p, u>> \in q.txDel})
        \cup {u \in Users : <<p, u>> \in q.txAdd}

\* C16: in the deactivation cascade every OPEN PR on which the user U being
\* processed is a reviewer is listed for U; for each such PR P, if the team
\* has an active member that is neither P's author nor a reviewer of P, U's
\* link is replaced by one of them and (P, U, replacement) is recorded in
\* reassignments; otherwise, and only otherwise, U's link is deleted, P has one
\* reviewer less and P is recorded in failed_reassignments; the commit stores
\* these links and answers with these two lists
C16_CascadeStep ==
    [][\A r \in Procs :
          /\ (req[r].op = "deactivate" /\ req[r].pc = "openPRs" /\ req'[r] # req[r]) =>
                LET U    == Head(req[r].usersToDeactivate)
                    open == {p \in PRs : prs[p].status = "OPEN" /\ U \in txView(req[r], p)}
                IN IF open = {}
                   THEN req'[r].usersToDeactivate = Tail(req[r].usersToDeactivate)
                   ELSE /\ Range(req'[r].prsToReassign) = open
                        /\ Len(req'[r].prsToReassign) = Cardinality(open)
                        /\ req'[r].usersToDeactivate = req[r].usersToDeactivate
          /\ (req[r].op = "deactivate" /\ req[r].pc = "write" /\ req'[r] # req[r]) =>
                LET q  == req[r]
                    q2 == req'[r]
                    U  == Head(q.usersToDeactivate)
                    P  == Head(q.prsToReassign)
                    before == txView(q, P)
                    after  == txView(q2, P)
                    E == {u \in Users : /\ users[u].team = q.team
                                        /\ users[u].active
                                        /\ u \notin before \cup {prs[P].author}}
                IN /\ prs[P].status = "OPEN"
                   /\ U \in before
                   /\ q2.op = "deactivate"
                   /\ \A p \in PRs \ {P} : txView(q2, p) = txView(q, p)
                   /\ IF E # {}
                      THEN \E N \in E :
                              /\ after = (before \ {U}) \cup {N}
                              /\ q2.reassignments =
                                    Append(q.reassignments,
                                           [pr_id |-> P, old_reviewer |-> U, new_reviewer |-> N])
                              /\ q2.failedReassignments = q.failedReassignments
                      ELSE /\ after = before \ {U}
                           /\ Cardinality(after) = Cardinality(before) - 1
                           /\ q2.failedReassignments = Append(q.failedReassignments, P)
                           /\ q2.reassignments = q.reassignments
          /\ (Responds("deactivate") /\ resp'.code = "OK" /\ resp'.proc = r) =>
                /\ \A p \in PRs : reviewers'[p] = txView(req[r], p)
                /\ resp'.reassignments = req[r].reassignments
                /\ resp'.failed_reassignments = req[r].failedReassignments]_vars

\* a deactivation committed after it replaced one reviewer of a PR and
\* dropped another for want of a replacement
C16_Witness ==
    /\ resp.op = "deactivate"
    /\ resp.code = "OK"
    /\ resp.reassignments # <<>>
    /\ resp.failed_reassignments # <<>>
    /\ \E p \in PRs : Cardinality(reviewers[p]) = 1

\* C17: every replacement the deactivation cascade chooses for user U on PR P
\* is a member of the team being deactivated, is not P's author, is not U and
\* is not a reviewer of P when it is chosen; the link it gets is a new one and
\* the links the commit stores make no author a reviewer
C17_CascadeReplacement ==
    [][\A r \in Procs :
          /\ (req[r].op = "deactivate" /\ req[r].pc = "replacement"
                /\ req'[r] # req[r] /\ req'[r].new # NoUser) =>
                LET N == req'[r].new
                    P == Head(req[r].prsToReassign)
                IN /\ users[N].team = req[r].team
                   /\ N # prs[P].author
                   /\ N # Head(req[r].usersToDeactivate)
                   /\ N \notin txView(req[r], P)
          /\ (req[r].op = "deactivate" /\ req[r].pc = "write"
                /\ req'[r] # req[r] /\ req[r].new # NoUser) =>
                LET N == req[r].new
                    P == Head(req[r].prsToReassign)
                IN /\ N \notin txView(req[r], P)
                   /\ req'[r].op = "deactivate"
                   /\ N \in txView(req'[r], P)
                   /\ prs[P].author \notin txView(req'[r], P)
          /\ (Responds("deactivate") /\ resp'.code = "OK") =>
                \A p \in PRs : prs'[p].author \notin reviewers'[p]]_vars

\* the cascade chose a replacement for a PR whose author is an active member
\* of the team being deactivated
C17_Witness ==
    \E r \in Procs :
       /\ req[r].op = "deactivate"
       /\ req[r].pc = "write"
       /\ req[r].new # NoUser
       /\ LET a == prs[Head(req[r].prsToReassign)].author
          IN users[a].team = req[r].team /\ users[a].active

\* C18: team deactivation is all-or-nothing: every step of a deactivate
\* request other than the commit that answers OK leaves every table as it is,
\* so a request that fails at any statement, or whose transaction aborts, has
\* changed no is_active flag and no reviewer link
C18_AllOrNothing ==
    [][\A r \in Procs :
          /\ (req[r].op = "deactivate" /\ req'[r] # req[r]
                /\ ~(Responds("deactivate") /\ resp'.code = "OK")) =>
                   UNCHANGED <<teams, users, prs, reviewers, now>>
          /\ (Responds("deactivate") /\ resp'.code # "OK" /\ resp'.proc = r) =>
                /\ req'[r] = Idle
                /\ UNCHANGED <<teams, users, prs, reviewers, now>>]_vars

\* a deactivation failed for a team that has an active member who is a
\* reviewer of an OPEN PR, and that member is still active and still a reviewer
C18_Witness ==
    /\ resp.op = "deactivate"
    /\ resp.code = "INTERNAL"
    /\ \E u \in Users, p \in PRs :
          /\ users[u].team = resp.team
          /\ users[u].active
          /\ prs[p].status = "OPEN"
          /\ u \in reviewers[p]

\* C19: PR creation is atomic: when a create request fails, also on the
\* INSERT of a reviewer link, neither the PR row nor any reviewer link of
\* the PR is stored
C19_CreateAtomic ==
    [][\A r \in Procs :
          (req[r].op = "create" /\ Responds("create") /\ resp'.proc = r
             /\ resp'.code # "OK") =>
                /\ prs'[req[r].pr].status = "NONE"
                /\ reviewers'[req[r].pr] = {}]_vars

\* C20: a create request for a PR id that is already stored answers PR_EXISTS
\* in its first statement and leaves the PR's author, status, timestamps and
\* reviewer links as they are, whoever the request names as author, a user
\* that does not exist included
C20_PRExists ==
    [][\A r \in Procs : \A p \in PRs :
          /\ (Begins(r, "create") /\ prExists(p)
                /\ (req'[r].op = "create" => req'[r].pr = p)
                /\ (req'[r].op # "create" => resp'.id = p)) =>
                   /\ resp' = [proc |-> r, op |-> "create", code |-> "PR_EXISTS", id |-> p]
                   /\ req'[r] = Idle
                   /\ UNCHANGED <<teams, users, prs, reviewers, now>>
          /\ \A u \in Users :
                (prExists(p) /\ ~userExists(u) /\ pullRequestCreateHandler(r, p, u)) =>
                   /\ resp'.code = "PR_EXISTS"
                   /\ UNCHANGED <<teams, users, prs, reviewers, now, req>>]_vars

\* PR_EXISTS was the answer for a PR that has reviewers while a user a
\* request can name as author does not exist
C20_Witness ==
    /\ resp.op = "create"
    /\ resp.code = "PR_EXISTS"
    /\ reviewers[resp.id] # {}
    /\ \E u \in FirstUsers(3) : ~userExists(u)
    /\ \A r \in Procs : req[r] = Idle

\* C21: an operation that names an absent entity answers NOT_FOUND and leaves
\* every table as it is: create with an unknown author (no PR row is stored),
\* merge and reassign of an unknown PR, setIsActive of an unknown user, team
\* get and team deactivate of an unknown team
C21_NotFound ==
    [][\A r \in Procs :
          /\ (req[r].op = "create" /\ req[r].pc = "author" /\ req'[r] # req[r]
                /\ ~userExists(req[r].author)) =>
                   /\ resp' = [proc |-> r, op |-> "create", code |-> "NOT_FOUND",
                               id |-> req[r].pr]
                   /\ req'[r] = Idle
                   /\ ~prExists(req[r].pr)
                   /\ UNCHANGED <<teams, users, prs, reviewers, now>>
          /\ (Begins(r, "create") /\ req'[r].op = "create") =>
                UNCHANGED <<teams, users, prs, reviewers, now>>
          /\ \A p \in PRs : \A op \in {"merge", "reassign"} :
                (Begins(r, op) /\ ~prExists(p)
                   /\ (req'[r].op = op => req'[r].pr = p)
                   /\ (req'[r].op # op => resp'.id = p)) =>
                      /\ resp'.op = op
                      /\ resp'.code = "NOT_FOUND"
                      /\ req'[r] = Idle
                      /\ UNCHANGED <<teams, users, prs, reviewers, now>>
          /\ \A u \in Users :
                (Begins(r, "setIsActive") /\ resp'.user = u /\ ~userExists(u)) =>
                   /\ resp'.code = "NOT_FOUND"
                   /\ req'[r] = Idle
                   /\ UNCHANGED <<teams, users, prs, reviewers, now>>
          /\ \A t \in Teams : \A op \in {"teamGet", "deactivate"} :
                (Begins(r, op) /\ t \notin teams
                   /\ (req'[r].op = op => req'[r].team = t)
                   /\ (req'[r].op # op => resp'.team = t)) =>
                      /\ resp'.op = op
                      /\ resp'.code = "NOT_FOUND"
                      /\ req'[r] = Idle
                      /\ UNCHANGED <<teams, users, prs, reviewers, now>>]_vars

\* create answered NOT_FOUND for its author while other users exist, and the
\* PR is not stored
C21_Witness ==
    /\ resp.op = "create"
    /\ resp.code = "NOT_FOUND"
    /\ ~prExists(resp.id)
    /\ \E u \in Users : userExists(u)
    /\ \E u \in FirstUsers(3) : ~userExists(u)

\* C22: a team add for a name that is already stored answers TEAM_EXISTS in
\* its first statement and changes nothing, whatever members the request
\* lists: no team row is written and no user is inserted, moved or has its
\* activity flag changed
C22_TeamExists ==
    [][\A r \in Procs : \A t \in Teams :
          (Begins(r, "teamAdd") /\ t \in teams
             /\ (req'[r].op = "teamAdd" => req'[r].team = t)
             /\ (req'[r].op # "teamAdd" => resp'.team = t)) =>
                /\ resp' = [proc |-> r, op |-> "teamAdd", code |-> "TEAM_EXISTS",
                            team |-> t]
                /\ req'[r] = Idle
                /\ UNCHANGED <<teams, users, prs, reviewers, now>>]_vars

\* TEAM_EXISTS was the answer while a user of another team, whom the request
\* could have listed, is stored
C22_Witness ==
    /\ resp.op = "teamAdd"
    /\ resp.code = "TEAM_EXISTS"
    /\ resp.team \in teams
    /\ \E u \in Users : userExists(u) /\ users[u].team # resp.team
    /\ \A r \in Procs : req[r] = Idle

\* C23: every member upsert of a team add leaves one users row for the listed
\* id, with the request's team and activity flag, whether or not the id was
\* stored before (a stored user moves to the new team); the rows of the other
\* users, every reviewer link and every PR are unchanged; a request answers OK
\* only after the upsert of its last member
C23_Upsert ==
    [][\A r \in Procs :
          /\ (req[r].op = "teamAdd" /\ req[r].pc = "upsert" /\ req'[r] # req[r]) =>
                LET member == Head(req[r].members)
                IN /\ req[r].team \in teams
                   /\ users'[member.user] =
                         [team |-> req[r].team, active |-> member.active]
                   /\ \A u \in Users \ {member.user} : users'[u] = users[u]
                   /\ UNCHANGED <<teams, prs, reviewers, now>>
                   /\ IF Len(req[r].members) = 1
                      THEN resp' = [proc |-> r, op |-> "teamAdd", code |-> "OK",
                                    team |-> req[r].team] /\ req'[r] = Idle
                      ELSE resp' = NoResp /\ req'[r].members = Tail(req[r].members)
          /\ (Responds("teamAdd") /\ resp'.code = "OK" /\ resp'.proc = r) =>
                /\ req[r].op = "teamAdd"
                /\ resp'.team \in teams'
                /\ req[r].pc = "upsert" => Len(req[r].members) = 1
                /\ req[r].pc = "insert" => req[r].members = <<>>]_vars

\* a team add answered OK after it moved a user who is a reviewer of a PR
\* into the team it created, and the user is still that PR's reviewer
C23_Witness ==
    /\ resp.op = "teamAdd"
    /\ resp.code = "OK"
    /\ \E u \in Users, p \in PRs :
          /\ u \in reviewers[p]
          /\ users[u].team = resp.team
          /\ users[prs[p].author].team # resp.team

\* C24: in every reachable state, whatever the interleaving of create,
\* reassign and team deactivate, a PR has at most two reviewer links (the
\* links of a PR are a set of users: (pull_request_id, user_id) is the
\* primary key, and a write of a second equal link is rejected)
C24_AtMostTwo == \A p \in PRs : Cardinality(reviewers[p]) <= 2

\* a PR of a team with three possible reviewers has two, while a reassign is
\* about to write a third user and the other slot is about to write as well
C24_Witness ==
    \E r, q \in Procs :
       /\ r # q
       /\ req[r].op = "reassign"
       /\ req[r].pc = "update"
       /\ Cardinality(reviewers[req[r].pr]) = 2
       /\ req[r].new \notin reviewers[req[r].pr]
       /\ \/ req[q].op = "reassign" /\ req[q].pc = "update"
          \/ req[q].op = "deactivate" /\ req[q].pc = "write"
          \/ req[q].op = "create" /\ req[q].pc = "reviewers"

\* C25: the status of a PR is monotonic: a PR that is not stored can only
\* become OPEN, an OPEN PR can only stay OPEN or become MERGED, and a MERGED
\* PR stays MERGED whatever operations follow
C25_StatusMonotonic ==
    [][\A p \in PRs :
          /\ prs[p].status = "NONE" => prs'[p].status \in {"NONE", "OPEN"}
          /\ prs[p].status = "OPEN" => prs'[p].status \in {"OPEN", "MERGED"}
          /\ prs[p].status = "MERGED" => prs'[p].status = "MERGED"]_vars

\* a PR is MERGED while a create request for its id, which found no such PR,
\* is about to insert the row
C25_Witness ==
    \E r \in Procs :
       /\ req[r].op = "create"
       /\ req[r].pc = "insert"
       /\ prs[req[r].pr].status = "MERGED"

C27_DuplicateRejected ==
    [][\A r \in Procs :
          (req[r].op = "reassign" /\ req[r].pc = "update" /\ req'[r] # req[r]
             /\ req[r].old \in reviewers[req[r].pr]
             /\ req[r].new \in reviewers[req[r].pr]
             /\ req[r].new # req[r].old) =>
                /\ resp' = reassignError(r, "INTERNAL")
                /\ req'[r] = Idle
                /\ UNCHANGED <<teams, users, prs, reviewers, now>>
                /\ Cardinality(reviewers'[req[r].pr]) = 2
                /\ req[r].old \in reviewers'[req[r].pr]]_vars

\* a reassign was answered with an internal error while the other slot's
\* reassign, for another old reviewer, has written its replacement and not yet
\* answered; the rejected request's old reviewer is still assigned
C27_Witness ==
    /\ resp.op = "reassign"
    /\ resp.code = "INTERNAL"
    /\ resp.old \in reviewers[resp.id]
    /\ Cardinality(reviewers[resp.id]) = 2
    /\ \E q \in Procs :
          /\ req[q].op = "reassign"
          /\ req[q].pc \in {"getPR", "getReviewers"}
          /\ req[q].pr = resp.id
          /\ req[q].old # resp.old
          /\ req[q].old \notin reviewers[resp.id]
          /\ req[q].new \in reviewers[resp.id]

\* C28: create, reassign and team deactivate act as one atomic unit: under
\* every interleaving, a user written as a reviewer of a PR is, at the moment
\* the link is written, active, not the author of the PR and not already a
\* reviewer of it. For create and reassign the moment is the statement that
\* changes the link table; for team deactivate it is the statement inside the
\* transaction that replaces the link, judged against the rows the
\* transaction sees at that statement
C28_WrittenStillEligible ==
    [][/\ (~\E r \in Procs : req[r].op = "deactivate" /\ req[r].pc = "commit" /\ req'[r] # req[r]) =>
             \A p \in PRs : \A u \in reviewers'[p] \ reviewers[p] :
                /\ users'[u].active
                /\ u # prs'[p].author
       /\ \A r \in Procs :
             (req[r].op = "deactivate" /\ req[r].pc = "write" /\ req'[r].op = "deactivate") =>
                \A l \in req'[r].txAdd \ req[r].txAdd :
                   /\ users[l[2]].active
                   /\ l[2] # prs[l[1]].author
                   /\ l[2] \notin txView(req[r], l[1])]_vars

\* C29: a reassign that answers success with replaced_by = N for old reviewer
\* R on PR P has replaced the link (P, R) by (P, N) with its write: the write
\* removes R from and leaves N among the reviewers of P, and the answer names
\* N; so of two concurrent reassigns for the same (P, R) at most one succeeds
C29_SuccessMeansReplaced ==
    [][\A r \in Procs :
          /\ (req[r].op = "reassign" /\ req[r].pc = "update" /\ req'[r].op = "reassign"
                 /\ req'[r].pc = "getPR") =>
                /\ req[r].old \in reviewers[req[r].pr]
                /\ req[r].old \notin reviewers'[req[r].pr]
                /\ req[r].new \in reviewers'[req[r].pr]
          /\ (req[r].op = "reassign" /\ Responds("reassign") /\ resp'.proc = r
                 /\ resp'.code = "OK") =>
                resp'.replaced_by = req[r].new]_vars

\* C30: of two concurrent creates with the same PR id one succeeds and the
\* other fails with PR_EXISTS: a create whose INSERT of the PR row finds the
\* row already written by the other request answers PR_EXISTS, writes no
\* reviewer link and leaves the PR row and its reviewer links as they are
C30_LoserGetsPRExists ==
    [][\A r \in Procs :
          (req[r].op = "create" /\ req[r].pc = "insert" /\ prExists(req[r].pr)
             /\ req'[r] # req[r]) =>
                /\ resp' = [proc |-> r, op |-> "create", code |-> "PR_EXISTS", id |-> req[r].pr]
                /\ req'[r] = Idle
                /\ UNCHANGED <<prs, reviewers>>]_vars

\* C31: a team add that fails persists nothing: after its error answer the
\* team row does not exist and no user is a member of the team (the team did
\* not exist when the request began, so every such member is the request's)
C31_TeamAddAllOrNothing ==
    [][\A r \in Procs :
          (req[r].op = "teamAdd" /\ Responds("teamAdd") /\ resp'.proc = r
             /\ resp'.code = "INTERNAL") =>
                /\ req[r].team \notin teams'
                /\ \A u \in Users : users'[u].team # req[r].team]_vars

\* C32: every step of a deactivation of team T leaves unchanged the reviewer
\* set of each MERGED PR, each reviewer link of a user who is not an active
\* member of T, the row of each user outside T, the team of every user, and
\* the status, author and timestamps of every PR
C32_DeactivateFrame ==
    [][\A r \in Procs :
          (req[r].op = "deactivate" /\ req'[r] # req[r]) =>
             LET T == req[r].team
             IN /\ prs' = prs
                /\ teams' = teams
                /\ \A p \in PRs : prs[p].status = "MERGED" => reviewers'[p] = reviewers[p]
                /\ \A u \in Users :
                      /\ users'[u].team = users[u].team
                      /\ users[u].team # T => users'[u] = users[u]
                      /\ (users[u].team # T \/ ~users[u].active) =>
                            \A p \in PRs : (u \in reviewers'[p]) <=> (u \in reviewers[p])]_vars

\* a deactivation committed and deactivated a reviewer of a MERGED PR, who
\* is still its reviewer, while an active user of another team exists
C32_Witness ==
    /\ resp.op = "deactivate"
    /\ resp.code = "OK"
    /\ resp.deactivated_count > 0
    /\ \E p \in PRs :
          /\ prs[p].status = "MERGED"
          /\ \E u \in reviewers[p] : users[u].team = resp.team
    /\ \E v \in Users : userExists(v) /\ users[v].team # resp.team /\ users[v].active

\* C33: setIsActive changes only the is_active flag of the named user: the
\* team of every user, the row of every other user, every reviewer link, every
\* PR and every team are unchanged, and the flag of the named user is the
\* requested one only when the user exists
C33_SetIsActiveFrame ==
    [][Responds("setIsActive") =>
          /\ UNCHANGED <<teams, prs, reviewers, now, req>>
          /\ \A u \in Users :
                /\ users'[u].team = users[u].team
                /\ u # resp'.user => users'[u] = users[u]
          /\ resp'.code = "NOT_FOUND" => users' = users]_vars

\* a user was deactivated individually and is still a reviewer of record of
\* an OPEN PR
C33_Witness ==
    /\ resp.op = "setIsActive"
    /\ resp.code = "OK"
    /\ ~users[resp.user].active
    /\ \E p \in PRs : prs[p].status = "OPEN" /\ resp.user \in reviewers[p]

\* C34: in every reachable state the merge timestamp of a stored PR is null
\* exactly when its status is OPEN and non-null exactly when it is MERGED
C34_MergedAtIffMerged ==
    \A p \in PRs :
       prExists(p) =>
          /\ prs[p].status \in {"OPEN", "MERGED"}
          /\ (prs[p].mergedAt = NULL) <=> (prs[p].status = "OPEN")
          /\ (prs[p].mergedAt # NULL) <=> (prs[p].status = "MERGED")

\* a merge request has run its UPDATE: the PR is MERGED and stamped
C34_Witness ==
    \E r \in Procs :
       /\ req[r].op = "merge"
       /\ req[r].pc = "getPR"
       /\ req[r].status = "OPEN"
       /\ prs[req[r].pr].status = "MERGED"
       /\ prs[req[r].pr].mergedAt # NULL

\* the foreign keys of initDB, read on the tables
ReferentialIntegrity ==
    /\ \A u \in Users : userExists(u) => users[u].team \in teams
    /\ \A p \in PRs : prExists(p) => userExists(prs[p].author)
    /\ \A p \in PRs : reviewers[p] # {} =>
          /\ prExists(p)
          /\ \A u \in reviewers[p] : userExists(u)

\* C35: referential integrity holds in every reachable state (the team of
\* every stored user is a stored team, the author of every stored PR is a
\* stored user, every reviewer link names a stored PR and a stored user), and
\* no step deletes a team, a user or a PR; stated on every step, for the
\* state it leaves and the state it reaches
C35_ReferentialIntegrity ==
    [][/\ ReferentialIntegrity
       /\ ReferentialIntegrity'
       /\ teams \subseteq teams'
       /\ \A u \in Users : userExists(u) => userExists(u)'
       /\ \A p \in PRs : prExists(p) => prExists(p)']_vars

\* a stored PR has a reviewer, and its author has since been moved by a team
\* add to another team than that reviewer's
C35_Witness ==
    \E p \in PRs :
       /\ prExists(p)
       /\ \E u \in reviewers[p] :
             /\ users[u].team \in teams
             /\ users[prs[p].author].team \in teams \ {users[u].team}

\* C36: every operation terminates: a request that has begun reaches its
\* answer (its slot is idle again); for team deactivate this is the commit or
\* a failure, also when a replacement moved a review onto a team member that
\* the cascade processes later
C36_Terminates ==
    \A r \in Procs : (req[r].op # "none") ~> (req[r].op = "none")

\* a deactivation committed after it moved a review onto a member of the
\* snapshot and later moved the same review away from that member
C36_Witness ==
    /\ resp.op = "deactivate"
    /\ resp.code = "OK"
    /\ \E i, j \in 1..Len(resp.reassignments) :
          /\ i < j
          /\ resp.reassignments[i].pr_id = resp.reassignments[j].pr_id
          /\ resp.reassignments[i].new_reviewer = resp.reassignments[j].old_reviewer

\* C37: at startup the loop makes at most 30 connection attempts (an attempt
\* begins only while i < 30); the first attempt whose open and ping both
\* succeed leaves the loop; the schema is initialised and requests are served
\* only after such an attempt; when the loop ends with an error, which is
\* after 30 failed attempts, the process ends with a fatal error and never
\* serves
C37_Startup ==
    [][LET m  == req["r2"]
           m2 == req'["r2"]
       IN /\ (m.pc = "open" /\ m2 # m) => m.i < Attempts
          /\ (m.pc \in {"open", "ping"} /\ m2 # m) =>
                /\ m2.i = m.i
                /\ (m.pc = "ping" /\ m2.err = "nil") => m2.pc = "check"
                /\ m2.err # "nil" => m2.pc = "sleep"
          /\ (m.pc = "sleep" /\ m2 # m) => (m2.i = m.i + 1 /\ m.err # "nil")
          /\ (m.pc = "check" /\ m2 # m) =>
                IF m.err = "nil"
                THEN m2.pc = "initDB" /\ m.i < Attempts
                ELSE m2.pc = "fatal" /\ m.i = Attempts
          /\ req'["r1"] # Closed => (m2.pc = "serve" /\ m2.err = "nil" /\ m2.i < Attempts)
          /\ m.pc = "fatal" => UNCHANGED vars]_vars

\* the service answered a request after its connection succeeded at the
\* last of the 30 attempts
C37_Witness ==
    /\ req["r2"].op = "main"
    /\ req["r2"].pc = "serve"
    /\ req["r2"].i = Attempts - 1
    /\ resp.op = "teamAdd"
    /\ resp.code = "OK"

\* C38: candidate selection is a pure read that returns exactly the users of
\* the given team who are active and not excluded. In every state in which
\* create or reassign runs its candidate query: for every team and every
\* exclusion set getActiveTeamMembersExcluding returns that set, with no
\* exclusion all active members of the team, and for one excluded user the
\* same set as getActiveTeamMembers; the step changes no table and takes its
\* reviewers from that set
C38_CandidateSelection ==
    [][\A r \in Procs :
          (req[r].op \in {"create", "reassign"} /\ req[r].pc = "candidates"
             /\ req'[r] # req[r]) =>
                LET X == IF req[r].op = "create" THEN {req[r].author}
                         ELSE req[r].cur \cup {req[r].author}
                    exact == {u \in Users : users[u].team = req[r].team /\ users[u].active} \ X
                IN /\ \A t \in Teams : \A Y \in SUBSET Users :
                         getActiveTeamMembersExcluding(t, Y) =
                            {u \in Users : users[u].team = t /\ users[u].active} \ Y
                   /\ \A t \in Teams : \A x \in Users \cup {NoUser} :
                         getActiveTeamMembers(t, x) = getActiveTeamMembersExcluding(t, {x})
                   /\ UNCHANGED <<teams, users, prs, reviewers, now>>
                   /\ req'[r].op = "create" => Range(req'[r].assigned) \subseteq exact
                   /\ req'[r].op = "reassign" => req'[r].new \in exact
                   /\ req'[r] = Idle =>
                         IF req[r].op = "create"
                         THEN exact = {} /\ resp'.code = "OK"
                         ELSE exact = {} /\ resp'.code = "NO_CANDIDATE"]_vars

\* a reassign has drawn its replacement while its team has an inactive
\* member and another team has an active user: both filters and the
\* exclusion list decided the result
C38_Witness ==
    \E r \in Procs :
       /\ req[r].op = "reassign"
       /\ req[r].pc = "update"
       /\ req[r].cur # {}
       /\ \E u \in Users : users[u].team = req[r].team /\ ~users[u].active
       /\ \E v \in Users : userExists(v) /\ users[v].team # req[r].team /\ users[v].active

\* C39: selection prefers no position of the candidate list. When create
\* runs its candidate query and finds more than two candidates, then for
\* every order in which the rows can come back every two-element subset of
\* the candidates is a value of assignReviewers, and the step can assign each
\* such subset; when reassign runs its candidate query, the step can choose
\* every eligible candidate as the replacement
C39_EveryOutcomePossible ==
    [][\A r \in Procs :
          /\ (req[r].op = "create" /\ req[r].pc = "candidates" /\ req'[r] # req[r]) =>
                LET cands == getActiveTeamMembers(req[r].team, req[r].author)
                    pairs == {S \in SUBSET cands : Cardinality(S) = 2}
                IN Cardinality(cands) > 2 =>
                      /\ \A c \in Orders(cands) :
                            {Range(a) : a \in assignReviewers(c, 2)} = pairs
                      /\ \A S \in pairs :
                            ENABLED (pullRequestCreateCandidates(r) /\ Range(req'[r].assigned) = S)
          /\ (req[r].op = "reassign" /\ req[r].pc = "candidates" /\ req'[r] # req[r]) =>
                LET cands == getActiveTeamMembersExcluding(req[r].team,
                                                           req[r].cur \cup {req[r].author})
                IN /\ selectRandomCandidate(cands) = cands
                   /\ \A N \in cands :
                         ENABLED (pullRequestReassignCandidates(r) /\ req'[r].new = N)]_vars

\* a create has drawn two reviewers out of three candidates
C39_Witness ==
    \E r \in Procs :
       /\ req[r].op = "create"
       /\ req[r].pc = "reviewers"
       /\ Len(req[r].assigned) = 2
       /\ Cardinality(getActiveTeamMembers(req[r].team, req[r].author)) = 3

\* C40: assignReviewers(candidates, maxCount) never modifies the list it is
\* given; it returns all candidates when there are at most maxCount of them,
\* and otherwise exactly maxCount pairwise-distinct elements of candidates,
\* one of the values the handlers' assignReviewers has for that list, also
\* when rand.Int fails on some or all shuffle steps
C40_AssignReviewers ==
    [][\A r \in Procs :
          (req[r].op = "assign" /\ req'[r] # req[r]) =>
             LET c == req[r].candidates
                 k == req[r].maxCount
                 res == req'[r].result
             IN /\ req'[r].candidates = c
                /\ req'[r].maxCount = k
                /\ req'[r].pc = "done" =>
                      /\ Len(c) <= k => res = c
                      /\ Len(c) > k =>
                            /\ Len(res) = k
                            /\ Cardinality(Range(res)) = k
                            /\ Range(res) \subseteq Range(c)
                      /\ res \in assignReviewers(c, k)]_vars

\* a call with four candidates returned two of them, not the first two in
\* the order given, after rand.Int failed on a shuffle step
C40_Witness ==
    \E r \in Procs :
       /\ req[r].op = "assign"
       /\ req[r].pc = "done"
       /\ Len(req[r].candidates) = 4
       /\ req[r].maxCount = 2
       /\ req[r].logged >= 1
       /\ req[r].result # SubSeq(req[r].candidates, 1, 2)

====
